---- MODULE Spec2Model ----
(***************************************************************************)
(* Telemetry pipeline of the sensor dashboards (admin.py, dash_db4.py):    *)
(* the acquisition loop sensor_reading_thread, the shared snapshot and     *)
(* ring histories guarded by data_lock, the rate-limited log_to_db, the    *)
(* alert evaluators update_live_view / update_dashboard with their         *)
(* cooldown, and the replay lookup over the thermal_data table.            *)
(*                                                                         *)
(* Time is counted in whole seconds since the program started.             *)
(* time.monotonic() and datetime.now() are read off that count;            *)
(* time.time() is the same count shifted by the age of the epoch.          *)
(***************************************************************************)
EXTENDS Integers, Sequences, FiniteSets, TLC

(***************************************************************************)
(* Program constants                                                       *)
(***************************************************************************)
ALERT_COOLDOWN == 300
DB_LOG_INTERVAL == 2
DHT_POLL_INTERVAL == 2
CONFIG_SYNC_PERIOD == 5
GLITCH_CEILING == 150

(***************************************************************************)
(* Bounds of the model.  MAX_HISTORY is the capacity of every ring history *)
(* (100 in the source), scaled down so that evictions happen within        *)
(* MaxCycles iterations of the acquisition loop.                           *)
(***************************************************************************)
MAX_HISTORY == 2
MaxCycles == 3

\* Seconds that may pass between two iterations of the acquisition loop:
\* none, exactly the poll / log interval, and more than it.
Deltas == {0, 2, 3}

\* Two of the four probes are modelled; the loop treats every probe alike.
Probes == 1..2

\* Python's None, and a value that is not None.  A number is compared only
\* after it is known not to be None, as in the source.
None == <<>>
Some(v) == <<v>>
Val(o) == o[1]

\* What one probe read returns: a (temperature, humidity) pair, or the null
\* pair when the read raised or the probe is absent.
NullPair == <<None, None>>
\* Each probe sits at its own place and reads its own value.
ProbeReading(i) == <<Some(45 + i), Some(69 + i)>>
ProbeReadings == {ProbeReading(i) : i \in Probes}

\* Thermal frames the array can deliver (the 32x24 grid flattened to two
\* pixels): one whose hottest pixel is at the glitch ceiling, one above it.
Frames == {<<20, 150>>, <<20, 151>>}

(***************************************************************************)
(* Pure helpers                                                            *)
(***************************************************************************)
RECURSIVE SeqMax(_)
SeqMax(s) ==
  IF Len(s) = 1 THEN s[1]
  ELSE LET m == SeqMax(Tail(s)) IN IF s[1] > m THEN s[1] ELSE m

RECURSIVE SeqMin(_)
SeqMin(s) ==
  IF Len(s) = 1 THEN s[1]
  ELSE LET m == SeqMin(Tail(s)) IN IF s[1] < m THEN s[1] ELSE m

RECURSIVE SeqSum(_)
SeqSum(s) == IF s = <<>> THEN 0 ELSE s[1] + SeqSum(Tail(s))

\* np.mean as an exact fraction num/den.
SeqMean(s) == [num |-> SeqSum(s), den |-> Len(s)]

\* thermal_stats_for_db of an accepted frame.
ThermalStats(f) == [max |-> SeqMax(f), avg |-> SeqMean(f), min |-> SeqMin(f)]

\* The glitch filter: np.max(frame_arr) > 150.
GlitchOnMin(f) == SeqMin(f) > GLITCH_CEILING
IsGlitch(f) == SeqMax(f) > GLITCH_CEILING

\* collections.deque(maxlen=MAX_HISTORY).append
RingAppendUnbounded(q, x) == Append(q, x)
RingAppend(q, x) ==
  IF Len(q) >= MAX_HISTORY THEN Append(Tail(q), x) ELSE Append(q, x)

\* create_history() and the initial mlx_stats: empty rings.
create_history == [time |-> <<>>, temp |-> <<>>, hum |-> <<>>]
EmptyStats == [time |-> <<>>, min |-> <<>>, max |-> <<>>, avg |-> <<>>]

\* np.zeros((MLX_HEIGHT, MLX_WIDTH))
ZeroFrame == <<0, 0>>

\* json.dumps(raw_frame_arr.tolist()): the text of the grid, token by token.
JsonNum(n) == [tok |-> "num", val |-> n]
JsonPunct(c) == [tok |-> c, val |-> 0]
RECURSIVE JsonItems(_)
JsonItems(f) ==
  IF Len(f) = 0 THEN <<>>
  ELSE IF Len(f) = 1 THEN <<JsonNum(f[1])>>
  ELSE <<JsonNum(f[1]), JsonPunct(",")>> \o JsonItems(Tail(f))
JsonDumps(f) == <<JsonPunct("[")>> \o JsonItems(f) \o <<JsonPunct("]")>>

\* json.loads of such a text: the numbers between the brackets, in order.
RECURSIVE JsonLoads(_)
JsonLoads(txt) ==
  IF txt = <<>> THEN <<>>
  ELSE (IF txt[1].tok = "num" THEN <<txt[1].val>> ELSE <<>>)
         \o JsonLoads(Tail(txt))

\* zlib.compress / zlib.decompress: the library's lossless codec, opaque.
ZlibCompress(txt) == [zlib |-> txt]
ZlibDecompress(blob) == blob.zlib

\* The rows one log_to_db call inserts (lines 226-234).
RECURSIVE DhtRows(_, _, _)
DhtRows(ts, results, i) ==
  IF i \notin Probes THEN <<>>
  ELSE (IF results[i][1] # None
        THEN <<[timestamp |-> ts, sensor_id |-> i,
                temp |-> Val(results[i][1]),
                humidity |-> IF results[i][2] = None THEN None
                             ELSE Val(results[i][2])]>>
        ELSE <<>>) \o DhtRows(ts, results, i + 1)

ThermalRows(ts, stats, frame) ==
  IF stats # None /\ frame # None
  THEN <<[timestamp |-> ts, max_temp |-> Val(stats).max,
          avg_temp |-> Val(stats).avg, min_temp |-> Val(stats).min,
          raw_frame |-> ZlibCompress(JsonDumps(frame))]>>
  ELSE <<>>

\* strftime("%Y-%m-%d %H:%M:%S"): fixed-width text, most significant digit
\* first (two digits stand for the nineteen characters).
Strftime(n) == <<n \div 10, n % 10>>

\* strftime("%Y-%m-%d"), the label of a daily bucket: the leading part of
\* the text of the bucket's first second.
StrftimeDay(n) == <<n \div 10>>

\* SQLite's comparison of two TEXT values: character by character, a proper
\* prefix before its extensions.
RECURSIVE TextLeq(_, _)
TextLeq(a, b) ==
  IF a = <<>> THEN TRUE
  ELSE IF b = <<>> THEN FALSE
  ELSE IF a[1] # b[1] THEN a[1] < b[1]
  ELSE TextLeq(Tail(a), Tail(b))

\* init_db(): the defaults seeded into the settings table.
DefaultSettings ==
  [dht_temp |-> 45, dht_hum_min |-> 30, dht_hum_max |-> 60,
   thermal_temp |-> 50, thermal_mode |-> "max", alert_email |-> <<>>]

(***************************************************************************)
(* The alert evaluators: update_dashboard (dash_db4.py 525-589, the same   *)
(* code in secure_dashboard7.py) and update_live_view (admin.py 600-662).  *)
(***************************************************************************)
DEFAULT_DHT_TEMP_THRESHOLD == 45
DEFAULT_DHT_HUM_MAX_THRESHOLD == 60
DEFAULT_DHT_HUM_MIN_THRESHOLD == 30
DEFAULT_THERMAL_TEMP_THRESHOLD == 50

\* Evaluator ticks started in one run, and rows stored in one replay run.
MaxTicks == 3
MaxRaceTicks == 2
MaxDispatchTicks == 2
MaxRows == 3

\* Dash serves its callbacks from a threaded server: two of its threads.
EvalThreads == {"cb1", "cb2"}

\* time.time() when the program starts: the epoch lies further back than
\* any cooldown.
WallOffset == ALERT_COOLDOWN + 1

\* Seconds between the starts of two ticks: well inside the cooldown,
\* exactly the cooldown, just past it.
EvalDeltas == {1, ALERT_COOLDOWN, ALERT_COOLDOWN + 1}

\* Addresses a user can enter, as character sequences.  No value and the
\* empty text are both falsy in Python and are the empty sequence here.
NotAnEmail == <<"n", "o", "t", "-", "a", "n", "-", "e", "m", "a", "i", "l">>
AtNoDot == <<"o", "p", "s", "@", "l", "a", "b">>
DotNoAt == <<"o", "p", "s", ".", "l", "a", "b">>
OpsAddress == <<"o", "p", "s", "@", "l", "a", "b", ".", "i", "o">>
Emails == {<<>>, NotAnEmail, AtNoDot, DotNoAt, OpsAddress}

\* ch in s
Contains(s, ch) == \E k \in DOMAIN s : s[k] = ch

\* valid_email = email_addr and "@" in email_addr and "." in email_addr
EmailHasAt(email_addr) == email_addr # <<>> /\ Contains(email_addr, "@")
ValidEmail(email_addr) ==
  email_addr # <<>> /\ Contains(email_addr, "@") /\ Contains(email_addr, ".")

\* What latest_data can hold when a tick copies it.  Per probe: never read,
\* hot and humid, exactly on the limits, dry.  Frames: the initial zeros, a
\* hot one, one whose maximum is above the limit and whose mean is below.
EvalProbeStates ==
  {[t |-> None, h |-> None], [t |-> Some(46), h |-> Some(70)],
   [t |-> Some(45), h |-> Some(30)], [t |-> Some(20), h |-> Some(29)]}
EvalFrames == {ZeroFrame, <<20, 150>>, <<40, 58>>}

\* The values of update_dashboard's threshold and selector inputs.
UiInputs ==
  [alert_source : {"dht", "thermal"},
   dht_temp_lim : {Some(DEFAULT_DHT_TEMP_THRESHOLD)},
   dht_hum_min : {Some(DEFAULT_DHT_HUM_MIN_THRESHOLD)},
   dht_hum_max : {Some(DEFAULT_DHT_HUM_MAX_THRESHOLD)},
   thermal_lim : {Some(DEFAULT_THERMAL_TEMP_THRESHOLD)},
   thermal_mode : {"max", "avg"},
   email_addr : Emails]

\* The layout's initial values of those inputs.
DefaultUi ==
  [alert_source |-> "thermal",
   dht_temp_lim |-> Some(DEFAULT_DHT_TEMP_THRESHOLD),
   dht_hum_min |-> Some(DEFAULT_DHT_HUM_MIN_THRESHOLD),
   dht_hum_max |-> Some(DEFAULT_DHT_HUM_MAX_THRESHOLD),
   thermal_lim |-> Some(DEFAULT_THERMAL_TEMP_THRESHOLD),
   thermal_mode |-> "max",
   email_addr |-> <<>>]

\* Settings an administrator can have saved: the defaults with another
\* thermal mode or alert address.
AdminConfigs ==
  {[DefaultSettings EXCEPT !.thermal_mode = m, !.alert_email = a] :
     m \in {"max", "avg"}, a \in Emails}

\* A number as a fraction, so that a maximum and a mean compare alike.
Frac(n) == [num |-> n, den |-> 1]

\* One entry of the triggers list: what was breached, by which probe (0 for
\* the thermal array) and the offending value.
Trigger(kind, probe, val) == [kind |-> kind, probe |-> probe, val |-> val]

\* if t_val is not None and t_val > dht_temp_lim
DhtTempTrigger(i, t, lim) ==
  IF t # None /\ Val(t) > lim
  THEN <<Trigger("temp", i, Frac(Val(t)))>> ELSE <<>>

\* dash_db4.py 555-563
DashHumTrigger(i, h, hum_min, hum_max) ==
  IF h # None /\ hum_min # None /\ hum_max # None
  THEN IF Val(h) < Val(hum_min)
       THEN <<Trigger("low_hum", i, Frac(Val(h)))>>
       ELSE IF Val(h) > Val(hum_max)
            THEN <<Trigger("high_hum", i, Frac(Val(h)))>>
            ELSE <<>>
  ELSE <<>>

\* admin.py 636-640
LiveHumTrigger(i, h, hum_min, hum_max) ==
  IF h # None /\ (Val(h) < hum_min \/ Val(h) > hum_max)
  THEN IF Val(h) < hum_min
       THEN <<Trigger("low_hum", i, Frac(Val(h)))>>
       ELSE <<Trigger("high_hum", i, Frac(Val(h)))>>
  ELSE <<>>

\* A thermal test that looks at the hottest pixel whatever the mode.
ThermalTriggerOnMax(frame, thermal_mode, lim) ==
  IF SeqMax(frame) > lim
  THEN <<Trigger(IF thermal_mode = "max" THEN "thermal_max"
                 ELSE "thermal_avg", 0, Frac(SeqMax(frame)))>>
  ELSE <<>>

\* val = np.max(frame) if thermal_mode == 'max' else np.mean(frame);
\* if val > thermal_lim
ThermalTrigger(frame, thermal_mode, lim) ==
  LET val == IF thermal_mode = "max" THEN Frac(SeqMax(frame))
             ELSE SeqMean(frame)
  IN IF val.num > lim * val.den
     THEN <<Trigger(IF thermal_mode = "max" THEN "thermal_max"
                    ELSE "thermal_avg", 0, val)>>
     ELSE <<>>

\* The triggers of all probes in probe order, and the probes that had any.
RECURSIVE FlattenProbes(_, _)
FlattenProbes(perProbe, i) ==
  IF i \notin Probes THEN <<>>
  ELSE perProbe[i] \o FlattenProbes(perProbe, i + 1)

RECURSIVE FailedProbes(_, _)
FailedProbes(perProbe, i) ==
  IF i \notin Probes THEN <<>>
  ELSE (IF perProbe[i] # <<>> THEN <<i>> ELSE <<>>)
         \o FailedProbes(perProbe, i + 1)

\* The locals an evaluation leaves behind; each flag is set where its kind
\* of trigger is appended.
Evaluation(perProbe, thermal) ==
  LET triggers == FlattenProbes(perProbe, 1) \o thermal
  IN [triggers |-> triggers,
      failed_sensors |-> FailedProbes(perProbe, 1),
      is_dht_temp_alert |->
        \E k \in DOMAIN triggers : triggers[k].kind = "temp",
      is_dht_hum_alert |->
        \E k \in DOMAIN triggers :
          triggers[k].kind \in {"low_hum", "high_hum"},
      is_thermal_alert |-> thermal # <<>>]

NoEvaluation == Evaluation([i \in Probes |-> <<>>], <<>>)

\* alert_source == 'dht' / alert_source == 'thermal'
SourceAlways(in, source) == TRUE
SourceSelected(in, source) == in.alert_source = source

\* update_dashboard, dash_db4.py 542-571.
EvalDashboard(dht, frame, in) ==
  IF ValidEmail(in.email_addr)
  THEN Evaluation(
         [i \in Probes |->
            IF SourceSelected(in, "dht") /\ in.dht_temp_lim # None
            THEN DhtTempTrigger(i, dht[i].t, Val(in.dht_temp_lim))
                   \o DashHumTrigger(i, dht[i].h, in.dht_hum_min,
                                     in.dht_hum_max)
            ELSE <<>>],
         IF SourceSelected(in, "thermal") /\ in.thermal_lim # None
         THEN ThermalTrigger(frame, in.thermal_mode, Val(in.thermal_lim))
         ELSE <<>>)
  ELSE NoEvaluation

\* update_live_view, admin.py 604-609 and 627-647.
EvalLiveView(dht, frame, cfg) ==
  Evaluation(
    [i \in Probes |->
       DhtTempTrigger(i, dht[i].t, cfg.dht_temp)
         \o LiveHumTrigger(i, dht[i].h, cfg.dht_hum_min, cfg.dht_hum_max)],
    ThermalTrigger(frame, cfg.thermal_mode, cfg.thermal_temp))

\* One subject part per trigger instead of one per category flag.
SubjectPartsPerTrigger(res) ==
  [k \in DOMAIN res.triggers |->
     IF res.triggers[k].kind = "temp" THEN "AIRFLOW OVERHEAT"
     ELSE IF res.triggers[k].kind \in {"low_hum", "high_hum"}
          THEN "HUMIDITY OUT OF RANGE"
          ELSE "THERMAL HOTSPOT"]

\* subject_parts, in the order the code appends them.
SubjectParts(res) ==
  (IF res.is_dht_temp_alert THEN <<"AIRFLOW OVERHEAT">> ELSE <<>>)
    \o (IF res.is_thermal_alert THEN <<"THERMAL HOTSPOT">> ELSE <<>>)
    \o (IF res.is_dht_hum_alert THEN <<"HUMIDITY OUT OF RANGE">> ELSE <<>>)

\* " + ".join(subject_parts), as the list of its pieces
RECURSIVE JoinPlus(_)
JoinPlus(parts) ==
  IF Len(parts) <= 1 THEN parts
  ELSE <<Head(parts), " + ">> \o JoinPlus(Tail(parts))

\* subject = "CRITICAL: " + " + ".join(subject_parts), or "SENSOR ALERT" when
\* no category flag is set
Subject(res) ==
  IF SubjectParts(res) = <<>> THEN <<"SENSOR ALERT">>
  ELSE <<"CRITICAL: ">> \o JoinPlus(SubjectParts(res))

\* if (current_time - last_alert_time) > ALERT_COOLDOWN
CooldownOverAt(now, last) == (now - last) >= ALERT_COOLDOWN
CooldownOver(now, last) == (now - last) > ALERT_COOLDOWN

\* alert_msg: "", the invalid-address warning, the list of triggers, and
\* that list with "(Email Sent)" or "(Cooldown: Ns)" appended.
AlertMsg(kind, remaining) == [kind |-> kind, remaining |-> remaining]

\* The locals of a callback thread that is not running a tick.
EvIdle ==
  [now |-> 0, email_addr |-> <<>>, res |-> NoEvaluation,
   alert_msg |-> AlertMsg("none", 0)]

(***************************************************************************)
(* Replay: replay_snapshot (admin.py 778-796) and replay_thermal_snapshot  *)
(* (dash_db4.py 688-734).                                                   *)
(***************************************************************************)
\* Seconds between two stored frames; the rate limiter keeps them more than
\* DB_LOG_INTERVAL apart.
ReplayDeltas == {3, 5}

\* Frames that pass the glitch filter.
ReplayFrames == {<<20, 150>>, <<30, 40>>}

NoReplay == [kind |-> "none"]
NoData == [kind |-> "no_data"]

VARIABLES
  clock,                \* seconds since the program started
  has_mlx,              \* setup_sensors() found the thermal array
  acq_pc,               \* position of sensor_reading_thread
  cycles,               \* iterations of its while loop so far
  current_time,         \* its time.monotonic() sample
  db_timestamp,         \* its datetime.now() sample
  last_dht_read_time,
  last_db_log_time,
  latest_dht_results,
  wi,                   \* probe index of the loop at lines 283-291
  time_str,
  raw_frame,            \* the buffer mlx.getFrame fills
  thermal_stats_for_db,
  thermal_frame_for_db,
  data_lock,            \* "free" or the thread holding it
  latest_dht,           \* latest_data["dht"]: probe -> [t, h]
  dht_history,          \* latest_data["dht_history"]
  mlx_frame,            \* latest_data["mlx_frame"]
  mlx_stats,            \* latest_data["mlx_stats"]
  dht_readings,         \* table dht_readings, in insertion order
  thermal_data,         \* table thermal_data, in insertion order
  rd_pc,                \* position of a reader tick (lines 611-615)
  rd_copy,              \* the copies it took
  settings,             \* table settings: key -> value
  config_cache,         \* the in-process copy of it
  last_config_sync,
  appended,             \* history: everything ever appended, per stream
  log_calls,            \* history: current_time of every executed log_to_db
  program,              \* the dashboard that is running
  ui,                   \* the values of update_dashboard's inputs
  last_alert_time,
  ev_pc,                \* callback thread -> position of its tick
  ev,                   \* callback thread -> locals of its tick
  dispatched,           \* history: every send_alert_email_thread call
  ticks,                \* evaluator ticks started so far
  replay_target,        \* the timestamp of the selected table row
  replay_result,        \* what the replay callback returned for it
  replay_rows,          \* history: rows in thermal_data when it ran
  poll_interval,        \* DHT_POLL_INTERVAL as read from the environment
  has_creds,            \* EMAIL_SENDER and EMAIL_APP_PASSWORD are both set
  sensed,               \* history: what each probe's read did in the last poll
  row_poll,             \* history: per dht_readings row, the poll it came from
  alerts,               \* table alerts, in insertion order
  runners,              \* the mail threads started so far, one per dispatch
  hq_in,                \* the inputs of the last history query
  hq_out,               \* the table it returned
  codec_grid,           \* a thermal grid handed to log_to_db
  codec_blob,           \* the raw_frame blob stored for it
  codec_arr,            \* the array replay decodes from the blob
  starts,               \* history: runs of init_db (program starts) so far
  txn,                  \* rows log_to_db's connection has not committed
  hq_thermal,           \* df_thermal, the result of the query's first read
  sync_rows,            \* what get_global_config returned to the loop
  save_pc,              \* position of sync_config on the save button
  save_conf,            \* new_conf, its dictionary of the form's values
  save_at,              \* when the last completed save returned, or None
  saves,                \* saves begun so far
  relay_lock,           \* server.py: data_lock, "free" or its holder
  relay_data,           \* server.py: latest_data
  posts,                \* server.py: request thread -> its POST /api/data
  gets                  \* server.py: request thread -> its GET /api/get_data

acqLocals == <<acq_pc, cycles, current_time, db_timestamp, last_dht_read_time,
               last_db_log_time, latest_dht_results, wi, time_str, raw_frame,
               thermal_stats_for_db, thermal_frame_for_db>>
snapshot == <<latest_dht, dht_history, mlx_frame, mlx_stats>>
tables == <<dht_readings, thermal_data>>
reader == <<rd_pc, rd_copy>>
config == <<settings, config_cache, last_config_sync>>
evalVars == <<program, ui, last_alert_time, ev_pc, ev, dispatched, ticks>>
replayVars == <<replay_target, replay_result, replay_rows>>
env == <<poll_interval, has_creds>>
acqHist == <<sensed, row_poll>>
dispatchVars == <<alerts, runners>>
queryVars == <<hq_in, hq_out>>
codecVars == <<codec_grid, codec_blob, codec_arr>>
storeVars == <<starts, txn, hq_thermal, sync_rows, save_pc, save_conf,
               save_at, saves>>
relayVars == <<relay_lock, relay_data, posts, gets>>
vars == <<clock, has_mlx, acqLocals, data_lock, snapshot, tables, reader,
          config, appended, log_calls, evalVars, replayVars,
          env, acqHist, dispatchVars, queryVars, codecVars, storeVars, relayVars>>

EmptyCopy == [dht |-> None, hist |-> None, frame |-> None, stats |-> None]

\* What one probe's read did: it returned a pair, or it raised.
Returned(pair) == [raised |-> FALSE, pair |-> pair]
Raised == [raised |-> TRUE, pair |-> NullPair]

\* A read that raised is reported as a reading of zeros.
read_dht_zeros(outcome) ==
  IF outcome.raised THEN <<Some(0), Some(0)>> ELSE outcome.pair

\* read_dht(sensor), lines 271-275: the pair the probe returns; (None, None)
\* when the read raises.
read_dht(outcome) == IF outcome.raised THEN NullPair ELSE outcome.pair

\* No mail thread has been started and the alerts table is empty.
DispatchIdle ==
  /\ alerts = <<>>
  /\ runners = <<>>

\* No history query has run.
QueryIdle ==
  /\ hq_in = None
  /\ hq_out = None

\* No grid has been handed to the codec.
CodecIdle ==
  /\ codec_grid = None
  /\ codec_blob = None
  /\ codec_arr = None

\* No transaction is open.
NoTxn == [dht |-> <<>>, thermal |-> <<>>]

\* init_db has run once (line 126); no log_to_db call, no reload and no
\* save is in progress.
StoreIdle ==
  /\ starts = 1
  /\ txn = NoTxn
  /\ hq_thermal = None
  /\ sync_rows = None
  /\ save_pc = "idle"
  /\ save_conf = None
  /\ save_at = None
  /\ saves = 0

\* The request threads of the relay server.
RelayThreads == 1..2

\* server.py lines 9-13: every field is None.
RelayFields == {"t1", "h1", "t2", "h2", "thermal_image"}
RelayInitial == [f \in RelayFields |-> None]

\* A request thread that is not serving a request.
NoRequest == [pc |-> "idle", data |-> None, status |-> 0, body |-> None]

\* The relay server has served no request.
RelayIdle ==
  /\ relay_lock = "free"
  /\ relay_data = RelayInitial
  /\ posts = [r \in RelayThreads |-> NoRequest]
  /\ gets = [r \in RelayThreads |-> NoRequest]

\* No evaluator tick has run: last_alert_time = 0 (admin.py 186).
EvalIdle ==
  /\ last_alert_time = 0
  /\ ev_pc = [e \in EvalThreads |-> "idle"]
  /\ ev = [e \in EvalThreads |-> EvIdle]
  /\ dispatched = <<>>
  /\ ticks = 0

\* No row of the history table has been selected.
ReplayIdle ==
  /\ replay_target = <<>>
  /\ replay_result = NoReplay
  /\ replay_rows = 0

\* The state in which sensor_reading_thread is started.
AcqStartState(prog) ==
  /\ sensed = [i \in Probes |-> Returned(NullPair)]
  /\ row_poll = <<>>
  /\ DispatchIdle
  /\ QueryIdle
  /\ program = prog
  /\ ui = DefaultUi
  /\ EvalIdle
  /\ ReplayIdle
  /\ clock = 0
  /\ has_mlx \in BOOLEAN
  /\ acq_pc = "top"
  /\ cycles = 0
  /\ current_time = 0
  /\ db_timestamp = Strftime(0)
  /\ last_dht_read_time = 0
  /\ last_db_log_time = 0
  /\ latest_dht_results = [i \in Probes |-> NullPair]
  /\ wi = 1
  /\ time_str = Strftime(0)
  /\ raw_frame = ZeroFrame
  /\ thermal_stats_for_db = None
  /\ thermal_frame_for_db = None
  /\ data_lock = "free"
  /\ latest_dht = [i \in Probes |-> [t |-> None, h |-> None]]
  /\ dht_history = [i \in Probes |-> create_history]
  /\ mlx_frame = ZeroFrame
  /\ mlx_stats = EmptyStats
  /\ dht_readings = <<>>
  /\ thermal_data = <<>>
  /\ rd_pc = "idle"
  /\ rd_copy = EmptyCopy
  /\ settings = DefaultSettings
  /\ config_cache = settings
  /\ last_config_sync = 0
  /\ appended = [dht |-> [i \in Probes |-> create_history], mlx |-> EmptyStats]
  /\ log_calls = <<>>

\* The same with no mail account in the environment.
AcqStartIn(prog) ==
  /\ has_creds = FALSE
  /\ AcqStartState(prog)

AcqStart == AcqStartIn("admin")

(***************************************************************************)
(* sensor_reading_thread (admin.py 254-321; dash_db4.py 221-283 is the     *)
(* same loop without the config sync), one action per step.                *)
(***************************************************************************)

\* data_lock = threading.Lock(): acquire blocks while another thread holds it.
LockNeverBlocks == TRUE
LockFree == data_lock = "free"

\* The end of a with data_lock block releases the lock (Lock.__exit__); the
\* variant leaves it with its holder.
LockKept(holder) == holder
LockRelease(holder) == "free"

\* Where the loop goes on after a write failed inside log_to_db: the
\* function catches every exception of its body (lines 223 and 237-238) and
\* returns, so the loop reaches its next iteration.
PcWriteErrorRaised == "crashed"
PcAfterWriteError == "top"

\* Lines 294-295: every iteration clears the two thermal locals before the
\* frame stage; the variant lets the previous iteration's value stand.
KeepThermalLocal(previous) == previous
ResetThermalLocal(previous) == None

\* Where the loop goes on after the glitch filter discarded a frame: continue
\* (line 303) starts the next iteration; the variant falls through to the
\* rate limiter.
PcGlitchFallsThrough == "log"
PcAfterGlitch == "top"

\* A loop whose except clause ended the iteration, as the glitch filter does.
PcFrameErrorContinues == "top"

\* Where the loop goes on after mlx.getFrame raised: the except clause of
\* lines 313-315 sets both thermal locals to None and falls through to the
\* rate limiter.
PcAfterFrameError == "log"

\* get_global_config(): the settings table as a mapping.
get_global_config == settings

\* Lines 262-270: the loop samples the clocks (time has passed since the
\* previous iteration: the frame read, a sleep), re-syncs the config cache
\* when due and decides whether the probes are polled.
AcqTop ==
  /\ acq_pc = "top"
  /\ cycles < MaxCycles
  /\ \E d \in Deltas :
       /\ clock' = clock + d
       /\ current_time' = clock + d
       /\ db_timestamp' = Strftime(clock + d)
  /\ cycles' = cycles + 1
  /\ IF current_time' - last_config_sync > CONFIG_SYNC_PERIOD
     THEN /\ config_cache' = get_global_config
          /\ last_config_sync' = current_time'
     ELSE UNCHANGED <<config_cache, last_config_sync>>
  /\ acq_pc' = IF current_time' - last_dht_read_time > poll_interval
               THEN "read_dht" ELSE "mlx"
  /\ UNCHANGED <<has_mlx, last_dht_read_time, last_db_log_time,
                 latest_dht_results, wi, time_str, raw_frame,
                 thermal_stats_for_db,
                 thermal_frame_for_db, data_lock, snapshot, tables, reader,
                 settings, appended, log_calls,
                 evalVars, replayVars,
                 env, acqHist, dispatchVars, queryVars, codecVars, storeVars, relayVars>>

\* Lines 271-279: every probe is read; a read that raises gives the null pair.
AcqReadDht ==
  /\ acq_pc = "read_dht"
  /\ \E failing \in SUBSET Probes :
       LET outcomes == [i \in Probes |->
                          IF i \in failing THEN Raised
                          ELSE Returned(ProbeReading(i))]
       IN /\ sensed' = outcomes
          /\ latest_dht_results' = [i \in Probes |-> read_dht(outcomes[i])]
  /\ acq_pc' = "dht_lock"
  /\ UNCHANGED <<clock, raw_frame, has_mlx, cycles, current_time,
                 db_timestamp,
                 last_dht_read_time, last_db_log_time, wi, time_str,
                 thermal_stats_for_db, thermal_frame_for_db, data_lock,
                 snapshot, tables, reader, config, appended, log_calls,
                 evalVars, replayVars,
                 env, row_poll, dispatchVars, queryVars, codecVars, storeVars, relayVars>>

\* Lines 281-283: with data_lock; time_str; the loop over the probes starts.
AcqDhtLock ==
  /\ acq_pc = "dht_lock"
  /\ LockFree
  /\ data_lock' = "acq"
  /\ time_str' = Strftime(clock)
  /\ wi' = 1
  /\ acq_pc' = "dht_t"
  /\ UNCHANGED <<clock, raw_frame, has_mlx, cycles, current_time,
                 db_timestamp,
                 last_dht_read_time, last_db_log_time, latest_dht_results,
                 thermal_stats_for_db, thermal_frame_for_db,
                 snapshot, tables, reader, config, appended, log_calls,
                 evalVars, replayVars,
                 env, acqHist, dispatchVars, queryVars, codecVars, storeVars, relayVars>>

\* Line 286: latest_data["dht"][f"t{idx}"] = t
AcqDhtT ==
  /\ acq_pc = "dht_t"
  /\ latest_dht' = [latest_dht EXCEPT ![wi].t = latest_dht_results[wi][1]]
  /\ acq_pc' = "dht_h"
  /\ UNCHANGED <<clock, raw_frame, has_mlx, cycles, current_time,
                 db_timestamp,
                 last_dht_read_time, last_db_log_time, latest_dht_results, wi,
                 time_str, thermal_stats_for_db, thermal_frame_for_db,
                 data_lock, dht_history, mlx_frame, mlx_stats, tables, reader,
                 config, appended, log_calls,
                 evalVars, replayVars,
                 env, acqHist, dispatchVars, queryVars, codecVars, storeVars, relayVars>>

\* Lines 287-288: latest_data["dht"][f"h{idx}"] = h; if t is not None
AcqDhtH ==
  /\ acq_pc = "dht_h"
  /\ latest_dht' = [latest_dht EXCEPT ![wi].h = latest_dht_results[wi][2]]
  /\ acq_pc' = IF latest_dht_results[wi][1] # None THEN "dht_time"
               ELSE IF wi + 1 \in Probes THEN "dht_t" ELSE "dht_unlock"
  /\ wi' = IF latest_dht_results[wi][1] = None /\ wi + 1 \in Probes
           THEN wi + 1 ELSE wi
  /\ UNCHANGED <<clock, raw_frame, has_mlx, cycles, current_time,
                 db_timestamp,
                 last_dht_read_time, last_db_log_time, latest_dht_results,
                 time_str, thermal_stats_for_db, thermal_frame_for_db,
                 data_lock, dht_history, mlx_frame, mlx_stats, tables, reader,
                 config, appended, log_calls,
                 evalVars, replayVars,
                 env, acqHist, dispatchVars, queryVars, codecVars, storeVars, relayVars>>

\* Lines 289-291: one append to one ring of probe wi.
AcqDhtAppend(pc, field, value, next) ==
  /\ acq_pc = pc
  /\ dht_history' =
       [dht_history EXCEPT ![wi][field] = RingAppend(@, value)]
  /\ appended' = [appended EXCEPT !.dht[wi][field] = Append(@, value)]
  /\ acq_pc' = next
  /\ UNCHANGED <<clock, raw_frame, has_mlx, cycles, current_time,
                 db_timestamp,
                 last_dht_read_time, last_db_log_time, latest_dht_results,
                 time_str, thermal_stats_for_db, thermal_frame_for_db,
                 data_lock, latest_dht, mlx_frame, mlx_stats, tables, reader,
                 config, log_calls,
                 evalVars, replayVars,
                 env, acqHist, dispatchVars, queryVars, codecVars, storeVars, relayVars>>

AcqDhtTime ==
  AcqDhtAppend("dht_time", "time", time_str, "dht_temp") /\ wi' = wi

AcqDhtTemp ==
  AcqDhtAppend("dht_temp", "temp", latest_dht_results[wi][1], "dht_hum")
    /\ wi' = wi

AcqDhtHum ==
  /\ AcqDhtAppend("dht_hum", "hum", latest_dht_results[wi][2],
                  IF wi + 1 \in Probes THEN "dht_t" ELSE "dht_unlock")
  /\ wi' = IF wi + 1 \in Probes THEN wi + 1 ELSE wi

\* The end of the with block, and line 292.
AcqDhtUnlock ==
  /\ acq_pc = "dht_unlock"
  /\ data_lock' = LockRelease(data_lock)
  /\ last_dht_read_time' = current_time
  /\ acq_pc' = "mlx"
  /\ UNCHANGED <<clock, raw_frame, has_mlx, cycles, current_time,
                 db_timestamp,
                 last_db_log_time, latest_dht_results, wi, time_str,
                 thermal_stats_for_db, thermal_frame_for_db,
                 snapshot, tables, reader, config, appended, log_calls,
                 evalVars, replayVars,
                 env, acqHist, dispatchVars, queryVars, codecVars, storeVars, relayVars>>

\* Lines 294-297 and 321 without a thermal array.
AcqNoMlx ==
  /\ acq_pc = "mlx"
  /\ ~has_mlx
  /\ thermal_stats_for_db' = ResetThermalLocal(thermal_stats_for_db)
  /\ thermal_frame_for_db' = ResetThermalLocal(thermal_frame_for_db)
  /\ acq_pc' = "log"
  /\ UNCHANGED <<clock, raw_frame, has_mlx, cycles, current_time,
                 db_timestamp,
                 last_dht_read_time, last_db_log_time, latest_dht_results, wi,
                 time_str, data_lock, snapshot, tables, reader, config,
                 appended, log_calls,
                 evalVars, replayVars,
                 env, acqHist, dispatchVars, queryVars, codecVars, storeVars, relayVars>>

\* Lines 294-299, 313-315: mlx.getFrame raises.
AcqMlxError ==
  /\ acq_pc = "mlx"
  /\ has_mlx
  /\ thermal_stats_for_db' = ResetThermalLocal(thermal_stats_for_db)
  /\ thermal_frame_for_db' = ResetThermalLocal(thermal_frame_for_db)
  /\ acq_pc' = PcAfterFrameError
  /\ UNCHANGED <<clock, raw_frame, has_mlx, cycles, current_time,
                 db_timestamp,
                 last_dht_read_time, last_db_log_time, latest_dht_results, wi,
                 time_str, data_lock, snapshot, tables, reader, config,
                 appended, log_calls,
                 evalVars, replayVars,
                 env, acqHist, dispatchVars, queryVars, codecVars, storeVars, relayVars>>

\* Lines 294-305: a frame is read; a glitch frame ends the iteration
\* (continue), any other frame gets its statistics.
AcqMlxFrame ==
  /\ acq_pc = "mlx"
  /\ has_mlx
  /\ \E frame_arr \in Frames :
       /\ raw_frame' = frame_arr
       /\ IF IsGlitch(frame_arr)
          THEN /\ thermal_stats_for_db' = ResetThermalLocal(thermal_stats_for_db)
               /\ thermal_frame_for_db' = ResetThermalLocal(thermal_frame_for_db)
               /\ acq_pc' = PcAfterGlitch
          ELSE /\ thermal_stats_for_db' = Some(ThermalStats(frame_arr))
               /\ thermal_frame_for_db' = frame_arr
               /\ acq_pc' = "mlx_lock"
  /\ UNCHANGED <<clock, has_mlx, cycles, current_time, db_timestamp,
                 last_dht_read_time, last_db_log_time, latest_dht_results, wi,
                 time_str, data_lock, snapshot, tables, reader, config,
                 appended, log_calls,
                 evalVars, replayVars,
                 env, acqHist, dispatchVars, queryVars, codecVars, storeVars, relayVars>>

\* Line 306: with data_lock
AcqMlxLock ==
  /\ acq_pc = "mlx_lock"
  /\ LockFree
  /\ data_lock' = "acq"
  /\ acq_pc' = "mlx_frame"
  /\ UNCHANGED <<clock, raw_frame, has_mlx, cycles, current_time,
                 db_timestamp,
                 last_dht_read_time, last_db_log_time, latest_dht_results, wi,
                 time_str, thermal_stats_for_db, thermal_frame_for_db,
                 snapshot, tables, reader, config, appended, log_calls,
                 evalVars, replayVars,
                 env, acqHist, dispatchVars, queryVars, codecVars, storeVars, relayVars>>

\* Lines 307-308: latest_data["mlx_frame"] = frame_arr.copy(); time_str
AcqMlxSetFrame ==
  /\ acq_pc = "mlx_frame"
  /\ mlx_frame' = thermal_frame_for_db
  /\ time_str' = Strftime(clock)
  /\ acq_pc' = "mlx_time"
  /\ UNCHANGED <<clock, raw_frame, has_mlx, cycles, current_time,
                 db_timestamp,
                 last_dht_read_time, last_db_log_time, latest_dht_results, wi,
                 thermal_stats_for_db, thermal_frame_for_db, data_lock,
                 latest_dht, dht_history, mlx_stats, tables, reader, config,
                 appended, log_calls,
                 evalVars, replayVars,
                 env, acqHist, dispatchVars, queryVars, codecVars, storeVars, relayVars>>

\* Lines 309-312: one append to one ring of the thermal statistics.
AcqMlxAppend(pc, field, value, next) ==
  /\ acq_pc = pc
  /\ mlx_stats' = [mlx_stats EXCEPT ![field] = RingAppend(@, value)]
  /\ appended' = [appended EXCEPT !.mlx[field] = Append(@, value)]
  /\ acq_pc' = next
  /\ UNCHANGED <<clock, raw_frame, has_mlx, cycles, current_time,
                 db_timestamp,
                 last_dht_read_time, last_db_log_time, latest_dht_results, wi,
                 time_str, thermal_stats_for_db, thermal_frame_for_db,
                 data_lock, latest_dht, dht_history, mlx_frame, tables,
                 reader, config, log_calls,
                 evalVars, replayVars,
                 env, acqHist, dispatchVars, queryVars, codecVars, storeVars, relayVars>>

AcqMlxTime == AcqMlxAppend("mlx_time", "time", time_str, "mlx_min")
AcqMlxMin == AcqMlxAppend("mlx_min", "min", Val(thermal_stats_for_db).min, "mlx_max")
AcqMlxMax == AcqMlxAppend("mlx_max", "max", Val(thermal_stats_for_db).max, "mlx_avg")
AcqMlxAvg ==
  AcqMlxAppend("mlx_avg", "avg", Val(thermal_stats_for_db).avg, "mlx_unlock")

\* The end of the with block at line 312.
AcqMlxUnlock ==
  /\ acq_pc = "mlx_unlock"
  /\ data_lock' = LockRelease(data_lock)
  /\ acq_pc' = "log"
  /\ UNCHANGED <<clock, raw_frame, has_mlx, cycles, current_time,
                 db_timestamp,
                 last_dht_read_time, last_db_log_time, latest_dht_results, wi,
                 time_str, thermal_stats_for_db, thermal_frame_for_db,
                 snapshot, tables, reader, config, appended, log_calls,
                 evalVars, replayVars,
                 env, acqHist, dispatchVars, queryVars, codecVars, storeVars, relayVars>>

\* The rate limiter of line 317.
LogAtInterval == (current_time - last_db_log_time) >= DB_LOG_INTERVAL
LogDue == (current_time - last_db_log_time) > DB_LOG_INTERVAL

\* Lines 317-319 with the limiter open: log_to_db (222-238) commits its rows,
\* or fails before the commit and leaves the tables as they were.
AcqLog ==
  /\ acq_pc = "log"
  /\ LogDue
  /\ \/ /\ dht_readings' =
             dht_readings \o DhtRows(db_timestamp, latest_dht_results, 1)
        /\ thermal_data' =
             thermal_data \o ThermalRows(db_timestamp, thermal_stats_for_db,
                                         thermal_frame_for_db)
        /\ row_poll' =
             row_poll \o [k \in 1..Len(DhtRows(db_timestamp,
                                               latest_dht_results, 1)) |->
                            last_dht_read_time]
        /\ acq_pc' = "top"
     \/ /\ UNCHANGED <<tables, row_poll>>
        /\ acq_pc' = PcAfterWriteError
  /\ log_calls' = Append(log_calls, current_time)
  /\ last_db_log_time' = current_time
  /\ UNCHANGED <<clock, raw_frame, has_mlx, cycles, current_time,
                 db_timestamp,
                 last_dht_read_time, latest_dht_results, wi, time_str,
                 thermal_stats_for_db, thermal_frame_for_db, data_lock,
                 snapshot, reader, config, appended, evalVars, replayVars,
                 env, sensed, dispatchVars, queryVars, codecVars, storeVars, relayVars>>

\* Lines 317-321 inside the interval: no write.
AcqSkipLog ==
  /\ acq_pc = "log"
  /\ ~LogDue
  /\ acq_pc' = "top"
  /\ UNCHANGED <<clock, raw_frame, has_mlx, cycles, current_time,
                 db_timestamp,
                 last_dht_read_time, last_db_log_time, latest_dht_results, wi,
                 time_str, thermal_stats_for_db, thermal_frame_for_db,
                 data_lock, snapshot, tables, reader, config, appended,
                 log_calls,
                 evalVars, replayVars,
                 env, acqHist, dispatchVars, queryVars, codecVars, storeVars, relayVars>>

Acquisition ==
  \/ AcqTop \/ AcqReadDht \/ AcqDhtLock \/ AcqDhtT \/ AcqDhtH
  \/ AcqDhtTime \/ AcqDhtTemp \/ AcqDhtHum \/ AcqDhtUnlock
  \/ AcqNoMlx \/ AcqMlxError \/ AcqMlxFrame \/ AcqMlxLock \/ AcqMlxSetFrame
  \/ AcqMlxTime \/ AcqMlxMin \/ AcqMlxMax \/ AcqMlxAvg \/ AcqMlxUnlock
  \/ AcqLog \/ AcqSkipLog

(***************************************************************************)
(* A reader tick: the copy-out of update_live_view (admin.py 611-615;      *)
(* update_dashboard in dash_db4.py 535-539 is the same).                   *)
(***************************************************************************)

\* Line 611: with data_lock
RdLock ==
  /\ rd_pc = "idle"
  /\ LockFree
  /\ data_lock' = "reader"
  /\ rd_pc' = "copy"
  /\ UNCHANGED <<clock, has_mlx, acqLocals, snapshot, tables, rd_copy,
                 config, appended, log_calls,
                 evalVars, replayVars,
                 env, acqHist, dispatchVars, queryVars, codecVars, storeVars, relayVars>>

\* Lines 612-615: the four copies, taken while the lock is held.
RdCopy ==
  /\ rd_pc = "copy"
  /\ rd_copy' = [dht |-> latest_dht, hist |-> dht_history,
                 frame |-> mlx_frame, stats |-> mlx_stats]
  /\ rd_pc' = "unlock"
  /\ UNCHANGED <<clock, has_mlx, acqLocals, data_lock, snapshot, tables,
                 config, appended, log_calls,
                 evalVars, replayVars,
                 env, acqHist, dispatchVars, queryVars, codecVars, storeVars, relayVars>>

\* The end of the with block.  The tick goes on with its copies, which
\* nothing else can reach; they are dropped here, where the tick stops
\* interacting with the shared state.
RdUnlock ==
  /\ rd_pc = "unlock"
  /\ data_lock' = LockRelease(data_lock)
  /\ rd_pc' = "idle"
  /\ rd_copy' = EmptyCopy
  /\ UNCHANGED <<clock, has_mlx, acqLocals, snapshot, tables,
                 config, appended, log_calls,
                 evalVars, replayVars,
                 env, acqHist, dispatchVars, queryVars, codecVars, storeVars, relayVars>>

Reader ==
  \/ RdLock \/ RdCopy \/ RdUnlock

NextAcq == Acquisition \/ Reader

\* The program started with the default environment.
InitAcq ==
  /\ poll_interval = DHT_POLL_INTERVAL
  /\ CodecIdle
  /\ StoreIdle
  /\ RelayIdle
  /\ AcqStart

SpecAcq == InitAcq /\ [][NextAcq]_vars

\* DHT_POLL_INTERVAL is read from the environment (line 79): the default,
\* or a slower poll that an operator has configured.
PollIntervals == {DHT_POLL_INTERVAL, 5}

InitPoll ==
  /\ poll_interval \in PollIntervals
  /\ CodecIdle
  /\ StoreIdle
  /\ RelayIdle
  /\ AcqStart

SpecPoll == InitPoll /\ [][NextAcq]_vars

\* What a probe may return with one attribute missing: sensor.temperature
\* and sensor.humidity are two reads, and either may give None (line 273).
HalfReadings(i) ==
  {<<ProbeReading(i)[1], None>>, <<None, ProbeReading(i)[2]>>}

\* Lines 271-279 in a poll in which one probe returns a pair with one
\* attribute missing; the other probes return their pairs.
AcqReadDhtHalf ==
  /\ acq_pc = "read_dht"
  /\ \E i \in Probes : \E half \in HalfReadings(i) :
       LET outcomes == [j \in Probes |->
                          IF j = i THEN Returned(half)
                          ELSE Returned(ProbeReading(j))]
       IN /\ sensed' = outcomes
          /\ latest_dht_results' = [j \in Probes |-> read_dht(outcomes[j])]
  /\ acq_pc' = "dht_lock"
  /\ UNCHANGED <<clock, raw_frame, has_mlx, cycles, current_time,
                 db_timestamp,
                 last_dht_read_time, last_db_log_time, wi, time_str,
                 thermal_stats_for_db, thermal_frame_for_db, data_lock,
                 snapshot, tables, reader, config, appended, log_calls,
                 evalVars, replayVars,
                 env, row_poll, dispatchVars, queryVars, codecVars, storeVars, relayVars>>

NextField == AcqReadDhtHalf \/ NextAcq

SpecField == InitAcq /\ [][NextField]_vars

(***************************************************************************)
(* sensor_reading_thread of alerts4.py (93-131): two probes, no store, no  *)
(* glitch filter; the statistics are taken inside the with block.          *)
(***************************************************************************)

\* What the loop of alerts4.py never assigns.
a4Rest == <<has_mlx, db_timestamp, last_db_log_time, wi, time_str,
            thermal_stats_for_db, thermal_frame_for_db, dht_history, tables,
            reader, config, log_calls, evalVars, replayVars, env, row_poll,
            dispatchVars, queryVars, codecVars, storeVars, relayVars>>

\* Lines 97-101: current_time = time.monotonic(); is a poll due?
A4Top ==
  /\ acq_pc = "top"
  /\ cycles < MaxCycles
  /\ \E d \in Deltas :
       /\ clock' = clock + d
       /\ current_time' = clock + d
  /\ cycles' = cycles + 1
  /\ acq_pc' = IF current_time' - last_dht_read_time > DHT_POLL_INTERVAL
               THEN "a4_read_dht" ELSE "a4_mlx"
  /\ UNCHANGED <<a4Rest, last_dht_read_time, latest_dht_results, raw_frame,
                 data_lock, latest_dht, mlx_frame, mlx_stats, appended,
                 sensed>>

\* Lines 102-107: both probes are read, outside the lock.
A4ReadDht ==
  /\ acq_pc = "a4_read_dht"
  /\ \E failing \in SUBSET Probes :
       LET outcomes == [i \in Probes |->
                          IF i \in failing THEN Raised
                          ELSE Returned(ProbeReading(i))]
       IN /\ sensed' = outcomes
          /\ latest_dht_results' = [i \in Probes |-> read_dht(outcomes[i])]
  /\ acq_pc' = "a4_dht_lock"
  /\ UNCHANGED <<a4Rest, clock, cycles, current_time, last_dht_read_time,
                 raw_frame, data_lock, latest_dht, mlx_frame, mlx_stats,
                 appended>>

\* Line 109: with data_lock
A4DhtLock ==
  /\ acq_pc = "a4_dht_lock"
  /\ LockFree
  /\ data_lock' = "acq"
  /\ acq_pc' = "a4_dht_update"
  /\ UNCHANGED <<a4Rest, clock, cycles, current_time, last_dht_read_time,
                 latest_dht_results, raw_frame, latest_dht, mlx_frame,
                 mlx_stats, appended, sensed>>

\* Line 110: latest_data["dht"].update(dht_readings)
A4DhtUpdate ==
  /\ acq_pc = "a4_dht_update"
  /\ latest_dht' = [i \in Probes |-> [t |-> latest_dht_results[i][1],
                                      h |-> latest_dht_results[i][2]]]
  /\ acq_pc' = "a4_dht_unlock"
  /\ UNCHANGED <<a4Rest, clock, cycles, current_time, last_dht_read_time,
                 latest_dht_results, raw_frame, data_lock, mlx_frame,
                 mlx_stats, appended, sensed>>

\* The end of the with block, and line 111.
A4DhtUnlock ==
  /\ acq_pc = "a4_dht_unlock"
  /\ data_lock' = LockRelease(data_lock)
  /\ last_dht_read_time' = current_time
  /\ acq_pc' = "a4_mlx"
  /\ UNCHANGED <<a4Rest, clock, cycles, current_time, latest_dht_results,
                 raw_frame, latest_dht, mlx_frame, mlx_stats, appended,
                 sensed>>

\* Lines 114 and 130-131 without a thermal array, and lines 115-117,
\* 127-128 when getFrame or the reshape raises: the iteration ends.
A4NoFrame ==
  /\ acq_pc = "a4_mlx"
  /\ acq_pc' = "top"
  /\ UNCHANGED <<a4Rest, clock, cycles, current_time, last_dht_read_time,
                 latest_dht_results, raw_frame, data_lock, latest_dht,
                 mlx_frame, mlx_stats, appended, sensed>>

\* Lines 115-118: a frame is read and reshaped, outside the lock.
A4MlxFrame ==
  /\ acq_pc = "a4_mlx"
  /\ has_mlx
  /\ \E frame_arr \in Frames : raw_frame' = frame_arr
  /\ acq_pc' = "a4_mlx_lock"
  /\ UNCHANGED <<a4Rest, clock, cycles, current_time, last_dht_read_time,
                 latest_dht_results, data_lock, latest_dht, mlx_frame,
                 mlx_stats, appended, sensed>>

\* Line 120: with data_lock
A4MlxLock ==
  /\ acq_pc = "a4_mlx_lock"
  /\ LockFree
  /\ data_lock' = "acq"
  /\ acq_pc' = "a4_frame"
  /\ UNCHANGED <<a4Rest, clock, cycles, current_time, last_dht_read_time,
                 latest_dht_results, raw_frame, latest_dht, mlx_frame,
                 mlx_stats, appended, sensed>>

\* Line 121: latest_data["mlx_frame"] = frame_2d
A4MlxSetFrame ==
  /\ acq_pc = "a4_frame"
  /\ mlx_frame' = raw_frame
  /\ acq_pc' = "a4_time"
  /\ UNCHANGED <<a4Rest, clock, cycles, current_time, last_dht_read_time,
                 latest_dht_results, raw_frame, data_lock, latest_dht,
                 mlx_stats, appended, sensed>>

\* Lines 122-125: one statement of the with block; value is what the
\* statement evaluates before it appends.
A4MlxAppend(pc, field, value, next) ==
  /\ acq_pc = pc
  /\ mlx_stats' = [mlx_stats EXCEPT ![field] = RingAppend(@, value)]
  /\ appended' = [appended EXCEPT !.mlx[field] = Append(@, value)]
  /\ acq_pc' = next
  /\ UNCHANGED <<a4Rest, clock, cycles, current_time, last_dht_read_time,
                 latest_dht_results, raw_frame, data_lock, latest_dht,
                 mlx_frame, sensed>>

A4MlxTime == A4MlxAppend("a4_time", "time", current_time, "a4_min")
A4MlxMin == A4MlxAppend("a4_min", "min", SeqMin(raw_frame), "a4_max")
A4MlxMax == A4MlxAppend("a4_max", "max", SeqMax(raw_frame), "a4_avg")
A4MlxAvg == A4MlxAppend("a4_avg", "avg", SeqMean(raw_frame), "a4_unlock")

\* The end of the with block at line 125.
A4MlxUnlock ==
  /\ acq_pc = "a4_unlock"
  /\ data_lock' = LockRelease(data_lock)
  /\ acq_pc' = "top"
  /\ UNCHANGED <<a4Rest, clock, cycles, current_time, last_dht_read_time,
                 latest_dht_results, raw_frame, latest_dht, mlx_frame,
                 mlx_stats, appended, sensed>>

Alerts4Acquisition ==
  \/ A4Top \/ A4ReadDht \/ A4DhtLock \/ A4DhtUpdate \/ A4DhtUnlock
  \/ A4NoFrame \/ A4MlxFrame \/ A4MlxLock \/ A4MlxSetFrame \/ A4MlxTime
  \/ A4MlxMin \/ A4MlxMax \/ A4MlxAvg \/ A4MlxUnlock

NextAlerts4 == Alerts4Acquisition \/ Reader

InitAlerts4 ==
  /\ poll_interval = DHT_POLL_INTERVAL
  /\ CodecIdle
  /\ StoreIdle
  /\ RelayIdle
  /\ AcqStartIn("alerts4")

SpecAlerts4 == InitAlerts4 /\ [][NextAlerts4]_vars

\* What the acquisition thread does in its next step, by position: it takes
\* or releases the lock, copies a value it already has into latest_data,
\* reads a sensor, computes a statistic of the frame, writes the store, or
\* only decides where to go.
AcqStepKind(pc) ==
  IF pc \in {"dht_lock", "mlx_lock", "a4_dht_lock", "a4_mlx_lock"}
    THEN "acquire"
  ELSE IF pc \in {"dht_unlock", "mlx_unlock", "a4_dht_unlock", "a4_unlock"}
    THEN "release"
  ELSE IF pc \in {"dht_t", "dht_h", "dht_time", "dht_temp", "dht_hum",
                  "mlx_frame", "mlx_time", "mlx_min", "mlx_max", "mlx_avg",
                  "a4_dht_update", "a4_frame", "a4_time"}
    THEN "copy"
  ELSE IF pc \in {"a4_min", "a4_max", "a4_avg"} THEN "statistics"
  ELSE IF pc \in {"read_dht", "mlx", "a4_read_dht", "a4_mlx"} THEN "sensor"
  ELSE IF pc = "log" THEN "storage"
  ELSE "control"

(***************************************************************************)
(* Evaluator ticks.  A tick runs on a callback thread; the threads share   *)
(* last_alert_time, which nothing guards.                                  *)
(***************************************************************************)

\* latest_data after one acquisition cycle has published a poll and a frame:
\* every published value is also the one entry of its ring.
SnapshotAfterCycle(dht, frame) ==
  /\ latest_dht = dht
  /\ dht_history =
       [i \in Probes |->
          IF dht[i].t = None THEN create_history
          ELSE [time |-> <<Strftime(0)>>, temp |-> <<dht[i].t>>,
                hum |-> <<dht[i].h>>]]
  /\ mlx_frame = frame
  /\ mlx_stats =
       (IF frame = ZeroFrame THEN EmptyStats
        ELSE [time |-> <<Strftime(0)>>, min |-> <<SeqMin(frame)>>,
              max |-> <<SeqMax(frame)>>, avg |-> <<SeqMean(frame)>>])
  /\ appended = [dht |-> dht_history, mlx |-> mlx_stats]

\* A dashboard is up: some readings are published, the user has set the
\* inputs (dash_db4) or an administrator has saved the settings (admin), and
\* no tick has run yet.
EvalStart ==
  /\ last_config_sync = 0
  /\ EvalIdle
  /\ ReplayIdle
  /\ poll_interval = DHT_POLL_INTERVAL
  /\ has_creds = FALSE
  /\ row_poll = <<>>
  /\ DispatchIdle
  /\ QueryIdle
  /\ CodecIdle
  /\ StoreIdle
  /\ RelayIdle
  /\ clock = 0
  /\ has_mlx = TRUE
  /\ acq_pc = "top"
  /\ cycles = 0
  /\ current_time = 0
  /\ db_timestamp = Strftime(0)
  /\ last_dht_read_time = 0
  /\ last_db_log_time = 0
  /\ latest_dht_results = [i \in Probes |-> NullPair]
  /\ wi = 1
  /\ time_str = Strftime(0)
  /\ raw_frame = ZeroFrame
  /\ thermal_stats_for_db = None
  /\ thermal_frame_for_db = None
  /\ data_lock = "free"
  /\ \E dht \in [Probes -> EvalProbeStates], frame \in EvalFrames :
       SnapshotAfterCycle(dht, frame)
  /\ sensed =
       [i \in Probes |-> Returned(<<latest_dht[i].t, latest_dht[i].h>>)]
  /\ dht_readings = <<>>
  /\ thermal_data = <<>>
  /\ rd_pc = "idle"
  /\ rd_copy = EmptyCopy
  /\ log_calls = <<>>

InitEval ==
  /\ program \in {"dash_db4", "admin"}
  /\ IF program = "dash_db4"
     THEN ui \in UiInputs /\ settings = DefaultSettings
     ELSE ui = DefaultUi /\ settings \in AdminConfigs
  /\ config_cache = settings
  /\ EvalStart

\* From the entry of the callback to the test of line 573 (dash_db4) / 649
\* (admin): the inputs or the cached settings are read, the snapshot is
\* copied under data_lock, time.time() is sampled and the thresholds are
\* evaluated.  Time has passed since the previous tick started.
EvBegin(e) ==
  /\ ev_pc[e] = "idle"
  /\ ticks < MaxTicks
  /\ LockFree
  /\ \E d \in EvalDeltas : clock' = clock + d
  /\ ticks' = ticks + 1
  /\ LET email_addr == IF program = "admin" THEN config_cache.alert_email
                       ELSE ui.email_addr
         res == IF program = "admin"
                THEN EvalLiveView(latest_dht, mlx_frame, config_cache)
                ELSE EvalDashboard(latest_dht, mlx_frame, ui)
         alert_msg ==
           IF res.triggers # <<>> THEN AlertMsg("alert", 0)
           ELSE IF program # "admin" /\ ~ValidEmail(email_addr)
                   /\ email_addr # <<>>
                THEN AlertMsg("invalid_email", 0)
                ELSE AlertMsg("none", 0)
     IN /\ ev' = [ev EXCEPT ![e] =
                    [now |-> clock' + WallOffset, email_addr |-> email_addr,
                     res |-> res, alert_msg |-> alert_msg]]
        /\ ev_pc' = [ev_pc EXCEPT ![e] =
                       IF res.triggers # <<>> THEN "check" ELSE "done"]
  /\ UNCHANGED <<has_mlx, acqLocals, data_lock, snapshot, tables, reader,
                 config, appended, log_calls, program, ui, last_alert_time,
                 dispatched, replayVars,
                 env, acqHist, dispatchVars, queryVars, codecVars, storeVars, relayVars>>

\* Line 575 / 651: the cooldown test reads last_alert_time; inside the
\* cooldown the tick only reports the seconds that remain (587 / 662).
EvCheck(e) ==
  /\ ev_pc[e] = "check"
  /\ IF CooldownOver(ev[e].now, last_alert_time)
     THEN /\ ev_pc' = [ev_pc EXCEPT ![e] = "send"]
          /\ UNCHANGED ev
     ELSE /\ ev_pc' = [ev_pc EXCEPT ![e] = "done"]
          /\ ev' = [ev EXCEPT ![e].alert_msg =
                      AlertMsg("cooldown",
                               ALERT_COOLDOWN - (ev[e].now - last_alert_time))]
  /\ UNCHANGED <<clock, has_mlx, acqLocals, data_lock, snapshot, tables,
                 reader, config, appended, log_calls, program, ui,
                 last_alert_time, dispatched, ticks, replayVars,
                 env, acqHist, dispatchVars, queryVars, codecVars, storeVars, relayVars>>

\* runner() of secure_dashboard7.py starts at the credentials test; the
\* runners of admin.py and dash_db4.py first call log_alert_to_db.
RunnerEntry == IF program = "secure_dashboard7" THEN "creds" ELSE "log"

\* The thread send_alert_email_thread creates: its position, its closure
\* (subject, failed_sensors still to chart) and what it has done so far.
NewRunner(e, subject, failed_sensors) ==
  [pc |-> RunnerEntry, by |-> e, subject |-> subject,
   charts |-> failed_sensors, rows |-> 0, started |-> FALSE,
   outcome |-> "none"]

\* The caller waits for the mail thread to finish.
DispatchJoins(e) ==
  \A k \in DOMAIN runners : runners[k].by = e => runners[k].pc = "done"

\* t.start() returns as soon as the thread is created.
DispatchReturns(e) == TRUE

\* Lines 576-583 / 652-658: the subject is built and
\* send_alert_email_thread starts the mail thread.
EvSend(e) ==
  /\ ev_pc[e] = "send"
  /\ runners' =
       Append(runners,
              NewRunner(e, Subject(ev[e].res), ev[e].res.failed_sensors))
  /\ dispatched' =
       Append(dispatched,
              [target_email |-> ev[e].email_addr,
               subject |-> Subject(ev[e].res),
               triggers |-> ev[e].res.triggers,
               failed_sensors |-> ev[e].res.failed_sensors,
               now |-> ev[e].now,
               last_alert_time |-> last_alert_time,
               by |-> e])
  /\ ev_pc' = [ev_pc EXCEPT ![e] = "set"]
  /\ UNCHANGED <<clock, has_mlx, acqLocals, data_lock, snapshot, tables,
                 reader, config, appended, log_calls, program, ui,
                 last_alert_time, ev, ticks, replayVars,
                 env, acqHist, alerts, queryVars, codecVars, storeVars, relayVars>>

\* A dispatch that leaves the time of the last alert where it was.
AlertStampKept(e) == last_alert_time

\* The value line 584 / 659 assigns: current_time, which the tick took
\* from time.time() before it evaluated (541 / 619).
AlertStamp(e) == ev[e].now

\* Lines 584-585 / 659-660: last_alert_time = current_time
EvSet(e) ==
  /\ ev_pc[e] = "set"
  /\ DispatchReturns(e)
  /\ last_alert_time' = AlertStamp(e)
  /\ ev' = [ev EXCEPT ![e].alert_msg = AlertMsg("sent", 0)]
  /\ ev_pc' = [ev_pc EXCEPT ![e] = "done"]
  /\ UNCHANGED <<clock, has_mlx, acqLocals, data_lock, snapshot, tables,
                 reader, config, appended, log_calls, program, ui,
                 dispatched, ticks, replayVars,
                 env, acqHist, dispatchVars, queryVars, codecVars, storeVars, relayVars>>

\* The callback returns alert_msg with its figures; its locals are gone.
EvReturn(e) ==
  /\ ev_pc[e] = "done"
  /\ ev_pc' = [ev_pc EXCEPT ![e] = "idle"]
  /\ ev' = [ev EXCEPT ![e] = EvIdle]
  /\ UNCHANGED <<clock, has_mlx, acqLocals, data_lock, snapshot, tables,
                 reader, config, appended, log_calls, program, ui,
                 last_alert_time, dispatched, ticks, replayVars,
                 env, acqHist, dispatchVars, queryVars, codecVars, storeVars, relayVars>>

\* A tick that starts when no other tick is in progress.
EvBeginAlone(e) ==
  /\ \A o \in EvalThreads : ev_pc[o] = "idle"
  /\ EvBegin(e)

\* Ticks one after another, as one browser's interval timer fires them.
NextTicks ==
  \E e \in EvalThreads :
    \/ EvBeginAlone(e) \/ EvCheck(e) \/ EvSend(e) \/ EvSet(e) \/ EvReturn(e)

SpecTicks == InitEval /\ [][NextTicks]_vars

\* admin.py with either radio button of 'alert-source-selector' (lines
\* 419-421) selected; the selector is an input of toggle_view only (587).
AdminUis ==
  {[DefaultUi EXCEPT !.alert_source = src] : src \in {"dht", "thermal"}}

InitSource ==
  /\ program = "admin"
  /\ ui \in AdminUis
  /\ settings \in AdminConfigs
  /\ config_cache = settings
  /\ EvalStart

SpecSource == InitSource /\ [][NextTicks]_vars

\* A tick that starts while another may be in progress: two browsers'
\* timers, or a timer and an edited input, fire within MaxRaceTicks ticks.
EvBeginRace(e) ==
  /\ ticks < MaxRaceTicks
  /\ EvBegin(e)

\* Ticks of different callback threads, interleaved line by line.
NextRace ==
  \E e \in EvalThreads :
    \/ EvBeginRace(e) \/ EvCheck(e) \/ EvSend(e) \/ EvSet(e) \/ EvReturn(e)

SpecRace == InitEval /\ [][NextRace]_vars

(***************************************************************************)
(* The mail thread: runner() of send_alert_email_thread (admin.py 361-386,  *)
(* dash_db4.py 323-349, secure_dashboard7.py 283-319).                      *)
(***************************************************************************)
\* log_alert_to_db("EMAIL_SENT", subject): one row, or none when sqlite
\* raises, which the function logs and swallows.
RunLogAlert(k) ==
  /\ runners[k].pc = "log"
  /\ \/ /\ alerts' = Append(alerts,
                             [timestamp |-> Strftime(clock),
                              alert_type |-> "EMAIL_SENT",
                              message |-> runners[k].subject])
        /\ runners' = [runners EXCEPT ![k].pc = "creds",
                                      ![k].rows = @ + 1]
     \/ /\ runners' = [runners EXCEPT ![k].pc = "creds"]
        /\ UNCHANGED alerts
  /\ UNCHANGED <<clock, has_mlx, acqLocals, data_lock, snapshot, tables,
                 reader, config, appended, log_calls, evalVars, replayVars,
                 env, acqHist, queryVars, codecVars, storeVars, relayVars>>

\* if not GMAIL_EMAIL or not GMAIL_APP_PASSWORD: return.  Otherwise the
\* message is built; the delivery attempt has started.
RunCreds(k) ==
  /\ runners[k].pc = "creds"
  /\ runners' =
       [runners EXCEPT
          ![k].pc = IF ~has_creds THEN "done"
                    ELSE IF runners[k].charts # <<>> THEN "chart_lock"
                         ELSE "smtp",
          ![k].started = has_creds,
          ![k].outcome = IF has_creds THEN @ ELSE "no_credentials"]
  /\ UNCHANGED <<clock, has_mlx, acqLocals, data_lock, snapshot, tables,
                 reader, config, appended, log_calls, evalVars, replayVars,
                 env, acqHist, alerts, queryVars, codecVars, storeVars, relayVars>>

\* generate_dht_history_image: with data_lock
RunChartLock(k) ==
  /\ runners[k].pc = "chart_lock"
  /\ LockFree
  /\ data_lock' = "mail"
  /\ runners' = [runners EXCEPT ![k].pc = "chart_copy"]
  /\ UNCHANGED <<clock, has_mlx, acqLocals, snapshot, tables,
                 reader, config, appended, log_calls, evalVars, replayVars,
                 env, acqHist, alerts, queryVars, codecVars, storeVars, relayVars>>

\* A renderer that takes the three lists out of the shared structure
\* instead of copying them.
RunChartDrain(k) ==
  /\ runners[k].pc = "chart_copy"
  /\ data_lock' = "free"
  /\ dht_history' = [i \in Probes |-> create_history]
  /\ runners' =
       [runners EXCEPT
          ![k].charts = Tail(@),
          ![k].pc = IF Tail(runners[k].charts) = <<>> THEN "smtp"
                    ELSE "chart_lock"]
  /\ UNCHANGED <<clock, has_mlx, acqLocals, latest_dht, mlx_frame, mlx_stats,
                 tables, reader, config, appended, log_calls, evalVars,
                 replayVars, env, acqHist, alerts, queryVars, codecVars, storeVars, relayVars>>

\* The three lists are copied and the lock is released; the chart is
\* rendered from the copies and attached.
RunChartCopy(k) ==
  /\ runners[k].pc = "chart_copy"
  /\ data_lock' = LockRelease(data_lock)
  /\ runners' =
       [runners EXCEPT
          ![k].charts = Tail(@),
          ![k].pc = IF Tail(runners[k].charts) = <<>> THEN "smtp"
                    ELSE "chart_lock"]
  /\ UNCHANGED <<clock, has_mlx, acqLocals, snapshot, tables,
                 reader, config, appended, log_calls, evalVars, replayVars,
                 env, acqHist, alerts, queryVars, codecVars, storeVars, relayVars>>

\* smtplib.SMTP(...) ... server.quit(): the message is sent, or an
\* exception is logged.
RunSmtp(k) ==
  /\ runners[k].pc = "smtp"
  /\ \E outcome \in {"sent", "failed"} :
       runners' = [runners EXCEPT ![k].pc = "done", ![k].outcome = outcome]
  /\ UNCHANGED <<clock, has_mlx, acqLocals, data_lock, snapshot, tables,
                 reader, config, appended, log_calls, evalVars, replayVars,
                 env, acqHist, alerts, queryVars, codecVars, storeVars, relayVars>>

Runner(k) ==
  \/ RunLogAlert(k) \/ RunCreds(k) \/ RunChartLock(k) \/ RunChartCopy(k)
  \/ RunSmtp(k)

\* Snapshots that breach the probe bounds and the thermal bound.
DispatchProbeStates ==
  {[i \in Probes |-> [t |-> Some(46), h |-> Some(70)]],
   [i \in Probes |-> IF i = 1 THEN [t |-> Some(46), h |-> Some(50)]
                     ELSE [t |-> Some(20), h |-> Some(50)]]}

\* A dashboard with a valid address, with or without mail credentials in
\* the environment.
DispatchStart ==
  /\ has_creds \in BOOLEAN
  /\ config_cache = settings
  /\ last_config_sync = 0
  /\ EvalIdle
  /\ ReplayIdle
  /\ poll_interval = DHT_POLL_INTERVAL
  /\ row_poll = <<>>
  /\ DispatchIdle
  /\ QueryIdle
  /\ CodecIdle
  /\ StoreIdle
  /\ RelayIdle
  /\ clock = 0
  /\ has_mlx = TRUE
  /\ acq_pc = "top"
  /\ cycles = 0
  /\ current_time = 0
  /\ db_timestamp = Strftime(0)
  /\ last_dht_read_time = 0
  /\ last_db_log_time = 0
  /\ latest_dht_results = [i \in Probes |-> NullPair]
  /\ wi = 1
  /\ time_str = Strftime(0)
  /\ raw_frame = ZeroFrame
  /\ thermal_stats_for_db = None
  /\ thermal_frame_for_db = None
  /\ data_lock = "free"
  /\ \E dht \in DispatchProbeStates : SnapshotAfterCycle(dht, <<20, 150>>)
  /\ sensed =
       [i \in Probes |-> Returned(<<latest_dht[i].t, latest_dht[i].h>>)]
  /\ dht_readings = <<>>
  /\ thermal_data = <<>>
  /\ rd_pc = "idle"
  /\ rd_copy = EmptyCopy
  /\ log_calls = <<>>

InitDispatch ==
  /\ program \in {"admin", "dash_db4", "secure_dashboard7"}
  /\ IF program = "admin"
     THEN /\ ui = DefaultUi
          /\ settings = [DefaultSettings EXCEPT !.alert_email = OpsAddress]
     ELSE /\ \E src \in {"dht", "thermal"} :
               ui = [DefaultUi EXCEPT !.alert_source = src,
                                      !.email_addr = OpsAddress]
          /\ settings = DefaultSettings
  /\ DispatchStart

\* A tick of the one browser that is connected, within MaxDispatchTicks.
EvBeginDispatch(e) ==
  /\ e = "cb1"
  /\ ticks < MaxDispatchTicks
  /\ EvBeginAlone(e)

\* Ticks of the dashboard and the mail threads they have started.
NextDispatch ==
  \/ \E e \in EvalThreads :
       \/ EvBeginDispatch(e) \/ EvCheck(e) \/ EvSend(e) \/ EvSet(e)
       \/ EvReturn(e)
  \/ \E k \in DOMAIN runners : Runner(k)

SpecDispatch == InitDispatch /\ [][NextDispatch]_vars

(***************************************************************************)
(* The retrying mail thread of secure_dashboard.py (192-232).              *)
(***************************************************************************)

\* for attempt in range(1, 4)
MAX_ATTEMPTS == 3
Attempts == 1..MAX_ATTEMPTS

\* Dispatches made in one run.
MaxRetryDispatches == 2

\* A pause that grows by two seconds per attempt.
BackoffLinear(attempt) == 2 * attempt

\* sleep_for = 2 ** attempt
Backoff(attempt) == 2 ^ attempt

\* The thread send_alert_email_thread creates (lines 222-231): the loop
\* variable, what each call of send_alert_email_sync returned and how long
\* the thread slept after each failure.
NewRetryRunner(e) ==
  [pc |-> "attempt", by |-> e, attempt |-> 1, results |-> <<>>,
   slept |-> <<>>]

InitRetry ==
  /\ program = "secure_dashboard"
  /\ ui = [DefaultUi EXCEPT !.email_addr = OpsAddress]
  /\ settings = DefaultSettings
  /\ DispatchStart

\* update_dashboard, lines 313-316 in a tick that has triggers, more than
\* ALERT_COOLDOWN after the last alert: send_alert_email_thread creates the
\* thread, starts it and returns (231-232).
RetryDispatch(e) ==
  /\ ev_pc[e] = "idle"
  /\ Len(runners) < MaxRetryDispatches
  /\ clock' = clock + ALERT_COOLDOWN + 1
  /\ ev' = [ev EXCEPT ![e].now = clock' + WallOffset]
  /\ runners' = Append(runners, NewRetryRunner(e))
  /\ ev_pc' = [ev_pc EXCEPT ![e] = "set"]
  /\ UNCHANGED <<has_mlx, acqLocals, data_lock, snapshot, tables, reader,
                 config, appended, log_calls, program, ui, last_alert_time,
                 dispatched, ticks, replayVars, env, acqHist, alerts,
                 queryVars, codecVars, storeVars, relayVars>>

\* Line 224: ok = send_alert_email_sync(...), which returns False without
\* credentials (193-195) or when the delivery raises (217-219), and True
\* after server.quit(); lines 225-226: if ok: return.
RetryAttempt(k) ==
  /\ runners[k].pc = "attempt"
  /\ \E ok \in (IF has_creds THEN BOOLEAN ELSE {FALSE}) :
       runners' = [runners EXCEPT
                     ![k].results = Append(@, ok),
                     ![k].pc = IF ok THEN "done" ELSE "sleep"]
  /\ UNCHANGED <<clock, has_mlx, acqLocals, data_lock, snapshot, tables,
                 reader, config, appended, log_calls, evalVars, replayVars,
                 env, acqHist, alerts, queryVars, codecVars, storeVars, relayVars>>

\* Lines 227-229: time.sleep(2 ** attempt), then the next attempt, or the
\* end of the loop and line 230.
RetrySleep(k) ==
  /\ runners[k].pc = "sleep"
  /\ runners' = [runners EXCEPT
                   ![k].slept = Append(@, Backoff(runners[k].attempt)),
                   ![k].attempt = @ + 1,
                   ![k].pc = IF runners[k].attempt + 1 \in Attempts
                             THEN "attempt" ELSE "done"]
  /\ UNCHANGED <<clock, has_mlx, acqLocals, data_lock, snapshot, tables,
                 reader, config, appended, log_calls, evalVars, replayVars,
                 env, acqHist, alerts, queryVars, codecVars, storeVars, relayVars>>

RetryRunner(k) ==
  k \in DOMAIN runners /\ (RetryAttempt(k) \/ RetrySleep(k))

NextRetry ==
  \/ \E e \in EvalThreads : RetryDispatch(e) \/ EvSet(e) \/ EvReturn(e)
  \/ \E k \in 1..MaxRetryDispatches : RetryRunner(k)

\* The scheduler runs every started thread again and again: an attempt
\* returns (the connection has a timeout of 15 seconds, line 206) and a
\* sleep ends.
SpecRetry ==
  /\ InitRetry
  /\ [][NextRetry]_vars
  /\ \A k \in 1..MaxRetryDispatches : WF_vars(RetryRunner(k))

(***************************************************************************)
(* The first tick of a dashboard, over a wider range of inputs: a number   *)
(* input that the user has cleared arrives as None.                        *)
(***************************************************************************)
WideProbeStates ==
  {[t |-> None, h |-> None], [t |-> Some(46), h |-> Some(50)],
   [t |-> Some(20), h |-> Some(50)], [t |-> Some(45), h |-> Some(30)],
   [t |-> Some(45), h |-> Some(60)], [t |-> Some(20), h |-> Some(29)],
   [t |-> Some(20), h |-> Some(61)], [t |-> Some(46), h |-> Some(70)]}

\* The frames of the snapshot, with one whose maximum and mean lie on the
\* default thermal bound.
WideFrames == EvalFrames \cup {<<50, 50>>}

WideUiInputs ==
  [alert_source : {"dht", "thermal"},
   dht_temp_lim : {None, Some(DEFAULT_DHT_TEMP_THRESHOLD)},
   dht_hum_min : {None, Some(DEFAULT_DHT_HUM_MIN_THRESHOLD)},
   dht_hum_max : {None, Some(DEFAULT_DHT_HUM_MAX_THRESHOLD)},
   thermal_lim : {None, Some(DEFAULT_THERMAL_TEMP_THRESHOLD)},
   thermal_mode : {"max", "avg"},
   email_addr : {<<>>, NotAnEmail, OpsAddress}]

InitFirstTick ==
  /\ program \in {"dash_db4", "admin"}
  /\ IF program = "dash_db4"
     THEN ui \in WideUiInputs /\ settings = DefaultSettings
     ELSE ui = DefaultUi /\ settings \in AdminConfigs
  /\ config_cache = settings
  /\ last_config_sync = 0
  /\ EvalIdle
  /\ ReplayIdle
  /\ poll_interval = DHT_POLL_INTERVAL
  /\ has_creds = FALSE
  /\ row_poll = <<>>
  /\ DispatchIdle
  /\ QueryIdle
  /\ CodecIdle
  /\ StoreIdle
  /\ RelayIdle
  /\ clock = 0
  /\ has_mlx = TRUE
  /\ acq_pc = "top"
  /\ cycles = 0
  /\ current_time = 0
  /\ db_timestamp = Strftime(0)
  /\ last_dht_read_time = 0
  /\ last_db_log_time = 0
  /\ latest_dht_results = [i \in Probes |-> NullPair]
  /\ wi = 1
  /\ time_str = Strftime(0)
  /\ raw_frame = ZeroFrame
  /\ thermal_stats_for_db = None
  /\ thermal_frame_for_db = None
  /\ data_lock = "free"
  /\ \E dht \in [Probes -> WideProbeStates], frame \in WideFrames :
       SnapshotAfterCycle(dht, frame)
  /\ sensed =
       [i \in Probes |-> Returned(<<latest_dht[i].t, latest_dht[i].h>>)]
  /\ dht_readings = <<>>
  /\ thermal_data = <<>>
  /\ rd_pc = "idle"
  /\ rd_copy = EmptyCopy
  /\ log_calls = <<>>

\* The first tick after the dashboard came up.
EvBeginFirst(e) ==
  /\ ticks = 0
  /\ EvBegin(e)

NextFirstTick ==
  \E e \in EvalThreads :
    \/ EvBeginFirst(e) \/ EvCheck(e) \/ EvSend(e) \/ EvSet(e) \/ EvReturn(e)

SpecFirstTick == InitFirstTick /\ [][NextFirstTick]_vars

(***************************************************************************)
(* Replay of a stored frame.                                               *)
(***************************************************************************)

\* WHERE timestamp >= ?
ReplayMatchesAny(ts) == DOMAIN thermal_data
ReplayMatches(ts) ==
  {k \in DOMAIN thermal_data : TextLeq(ts, thermal_data[k].timestamp)}

\* SELECT raw_frame, timestamp FROM thermal_data WHERE timestamp >= ?
\* ORDER BY timestamp ASC LIMIT 1, then the decoding of the frame; "No Data"
\* when fetchone() returns nothing.
replay_snapshot(ts) ==
  LET match == ReplayMatches(ts)
  IN IF match = {} THEN NoData
     ELSE LET k == CHOOSE k \in match :
                     \A j \in match :
                       /\ TextLeq(thermal_data[k].timestamp,
                                  thermal_data[j].timestamp)
                       /\ thermal_data[j].timestamp = thermal_data[k].timestamp
                            => k <= j
              res == thermal_data[k]
          IN [kind |-> "snapshot", selected |-> ts,
              actual |-> res.timestamp,
              arr |-> JsonLoads(ZlibDecompress(res.raw_frame))]

\* The acquisition loop passes the rate limiter with an accepted frame and
\* log_to_db stores it under the formatted time of that cycle.
ReplayStore ==
  /\ has_mlx
  /\ Len(thermal_data) < MaxRows
  /\ \E d \in ReplayDeltas, frame_arr \in ReplayFrames :
       /\ clock' = clock + d
       /\ thermal_data' =
            thermal_data \o ThermalRows(Strftime(clock'),
                                        Some(ThermalStats(frame_arr)),
                                        frame_arr)
  /\ UNCHANGED <<has_mlx, acqLocals, data_lock, snapshot, dht_readings,
                 reader, config, appended, log_calls, evalVars, replayVars,
                 env, acqHist, dispatchVars, queryVars, codecVars, storeVars, relayVars>>

\* The timestamps a row of the history table can carry: a second (raw rows
\* and sub-daily buckets) or a day (daily buckets), up to the present.
ReplayTargets ==
  {Strftime(n) : n \in 0..(clock + 1)}
    \cup {StrftimeDay(n) : n \in 0..(clock + 1)}

\* The user selects a row of the history table.
ReplaySelect ==
  /\ \E ts \in ReplayTargets :
       /\ replay_target' = ts
       /\ replay_result' = replay_snapshot(ts)
  /\ replay_rows' = Len(thermal_data)
  /\ UNCHANGED <<clock, has_mlx, acqLocals, data_lock, snapshot, tables,
                 reader, config, appended, log_calls, evalVars,
                 env, acqHist, dispatchVars, queryVars, codecVars, storeVars, relayVars>>

NextReplay == ReplayStore \/ ReplaySelect

SpecReplay == InitAcq /\ [][NextReplay]_vars

(***************************************************************************)
(* The history query: load_history_data (admin.py 710-774, dash_db4.py     *)
(* 634-683).  A cell of the data frame is None (NaN) or a fraction.        *)
(***************************************************************************)
\* pd.to_datetime of a stored timestamp: the second it names.
to_datetime(ts) == ts[1] * 10 + ts[2]

\* The column a probe's field gets in the pivot: f"{col[1]}_{col[0]}".
SCol(i, field) ==
  IF field = "temp" THEN (IF i = 1 THEN "S1_temp" ELSE "S2_temp")
  ELSE (IF i = 1 THEN "S1_humidity" ELSE "S2_humidity")

ThermalColumns == {"max_temp", "avg_temp", "min_temp"}
STempColumns == {SCol(i, "temp") : i \in Probes}
SHumColumns == {SCol(i, "humidity") : i \in Probes}
HistColumns == ThermalColumns \cup STempColumns \cup SHumColumns

\* A range that leaves its end out: what an upper bound without the :59
\* suffix would select.
RECURSIVE BetweenExclusive(_, _, _)
BetweenExclusive(rows, start_ts, end_ts) ==
  IF rows = <<>> THEN <<>>
  ELSE (IF /\ TextLeq(start_ts, Head(rows).timestamp)
           /\ ~TextLeq(end_ts, Head(rows).timestamp)
        THEN <<Head(rows)>> ELSE <<>>)
         \o BetweenExclusive(Tail(rows), start_ts, end_ts)

\* WHERE timestamp BETWEEN start_ts AND end_ts: a comparison of text.
RECURSIVE Between(_, _, _)
Between(rows, start_ts, end_ts) ==
  IF rows = <<>> THEN <<>>
  ELSE (IF /\ TextLeq(start_ts, Head(rows).timestamp)
           /\ TextLeq(Head(rows).timestamp, end_ts)
        THEN <<Head(rows)>> ELSE <<>>)
         \o Between(Tail(rows), start_ts, end_ts)

\* ORDER BY timestamp DESC: each row goes in front of the first row that is
\* not later than it.
RECURSIVE InsertDesc(_, _)
InsertDesc(row, sorted) ==
  IF sorted = <<>> THEN <<row>>
  ELSE IF TextLeq(Head(sorted).timestamp, row.timestamp)
       THEN <<row>> \o sorted
       ELSE <<Head(sorted)>> \o InsertDesc(row, Tail(sorted))

RECURSIVE OrderByTimestampDesc(_)
OrderByTimestampDesc(rows) ==
  IF rows = <<>> THEN <<>>
  ELSE InsertDesc(Head(rows), OrderByTimestampDesc(Tail(rows)))

\* A cell taken from the probe's first row of the range, whatever its
\* timestamp: a join that ignores the key.
PivotCellAnyTime(df_dht, ts, i, field) ==
  LET hits == {k \in DOMAIN df_dht : df_dht[k].sensor_id = i}
  IN IF hits = {} THEN None
     ELSE LET k == CHOOSE k \in hits : \A j \in hits : k <= j
          IN Some(Frac(IF field = "temp" THEN df_dht[k].temp
                       ELSE df_dht[k].humidity))

\* pivot_table(..., aggfunc='first'): the cell of probe i's field at ts.
PivotCell(df_dht, ts, i, field) ==
  LET hits == {k \in DOMAIN df_dht :
                 df_dht[k].timestamp = ts /\ df_dht[k].sensor_id = i}
  IN IF hits = {} THEN None
     ELSE LET k == CHOOSE k \in hits : \A j \in hits : k <= j
          IN Some(Frac(IF field = "temp" THEN df_dht[k].temp
                       ELSE df_dht[k].humidity))

\* The columns of the merged frame: a probe has columns once it has a row.
MergedColumns(df_dht) ==
  ThermalColumns
    \cup {SCol(df_dht[k].sensor_id, f) :
            k \in DOMAIN df_dht, f \in {"temp", "humidity"}}

\* pd.merge(df_thermal, df_dht_pivot, on='timestamp', how='left'): one row
\* per thermal row, the probes' cells beside it where the timestamps agree.
Merge(df_thermal, df_dht) ==
  [k \in DOMAIN df_thermal |->
     [timestamp |-> df_thermal[k].timestamp,
      cell |->
        [c \in HistColumns |->
           IF c = "max_temp" THEN Some(Frac(df_thermal[k].max_temp))
           ELSE IF c = "avg_temp" THEN Some(df_thermal[k].avg_temp)
           ELSE IF c = "min_temp" THEN Some(Frac(df_thermal[k].min_temp))
           ELSE IF c = "S1_temp"
             THEN PivotCell(df_dht, df_thermal[k].timestamp, 1, "temp")
           ELSE IF c = "S1_humidity"
             THEN PivotCell(df_dht, df_thermal[k].timestamp, 1, "humidity")
           ELSE IF c = "S2_temp"
             THEN PivotCell(df_dht, df_thermal[k].timestamp, 2, "temp")
           ELSE PivotCell(df_dht, df_thermal[k].timestamp, 2, "humidity")]]]

\* The width of a resampling rule, in seconds: the day of the model has ten
\* seconds, and "5T" stands for the rules that divide a day.
BucketWidth(interval) == IF interval = "D" THEN 10 ELSE 5

\* The sum of the cells that are not NaN, and how many they are.
RECURSIVE CellSum(_)
CellSum(cells) ==
  IF cells = <<>> THEN [num |-> 0, den |-> 1, n |-> 0]
  ELSE LET rest == CellSum(Tail(cells))
           v == Head(cells)
       IN IF v = None THEN rest
          ELSE [num |-> Val(v).num * rest.den + rest.num * Val(v).den,
                den |-> Val(v).den * rest.den, n |-> rest.n + 1]

\* The first cell that is not NaN.
RECURSIVE ColumnFirst(_)
ColumnFirst(cells) ==
  IF cells = <<>> THEN None
  ELSE IF Head(cells) # None THEN Head(cells) ELSE ColumnFirst(Tail(cells))

\* .mean() of one column of one window: NaN cells are skipped, and a column
\* with no other cell is NaN.
ColumnMean(cells) ==
  LET s == CellSum(cells)
  IN IF s.n = 0 THEN None ELSE Some([num |-> s.num, den |-> s.den * s.n])

\* The rows of a frame that fall into the window that starts at second lo.
RECURSIVE InWindow(_, _, _)
InWindow(rows, lo, width) ==
  IF rows = <<>> THEN <<>>
  ELSE (IF /\ lo <= to_datetime(Head(rows).timestamp)
           /\ to_datetime(Head(rows).timestamp) < lo + width
        THEN <<Head(rows)>> ELSE <<>>) \o InWindow(Tail(rows), lo, width)

\* df.resample(interval).mean().dropna(how='all') with the label of each
\* window formatted: the windows from the first row's to the last row's, in
\* ascending order, without those that hold no row.
RECURSIVE ResampleFrom(_, _, _, _)
ResampleFrom(rows, interval, lo, last) ==
  IF lo > last THEN <<>>
  ELSE LET members == InWindow(rows, lo, BucketWidth(interval))
           means == [c \in HistColumns |->
                       ColumnMean([k \in DOMAIN members |->
                                     members[k].cell[c]])]
       IN (IF \A c \in HistColumns : means[c] = None THEN <<>>
           ELSE <<[timestamp |-> IF interval = "D" THEN StrftimeDay(lo)
                                 ELSE Strftime(lo),
                   cell |-> means]>>)
            \o ResampleFrom(rows, interval, lo + BucketWidth(interval), last)

Floor(n, width) == (n \div width) * width

Resample(rows, interval) ==
  IF rows = <<>> THEN <<>>
  ELSE LET secs == {to_datetime(rows[k].timestamp) : k \in DOMAIN rows}
           first == CHOOSE a \in secs : \A b \in secs : a <= b
           last == CHOOSE a \in secs : \A b \in secs : a >= b
       IN ResampleFrom(rows, interval, Floor(first, BucketWidth(interval)),
                       Floor(last, BucketWidth(interval)))

\* cell > lim, which is False for NaN
CellAbove(v, lim) == v # None /\ Val(v).num > lim * Val(v).den
CellBelow(v, lim) == v # None /\ Val(v).num < lim * Val(v).den

\* Python's truth value of a limit: None and 0 are false.
Truthy(lim) == lim # None /\ Val(lim) # 0

\* dash_db4.py 670-681: the conditions that are collected, and the rows for
\* which one of them holds; with no condition the frame is left as it is.
DashConditions(columns, in) ==
  (IF Truthy(in.thermal_limit) THEN {"max_temp"} ELSE {})
    \cup (IF Truthy(in.dht_limit) THEN columns \cap STempColumns ELSE {})
    \cup (IF Truthy(in.hum_min) /\ Truthy(in.hum_max)
          THEN columns \cap SHumColumns ELSE {})

DashCondition(row, c, in) ==
  IF c = "max_temp" THEN CellAbove(row.cell[c], Val(in.thermal_limit))
  ELSE IF c \in STempColumns THEN CellAbove(row.cell[c], Val(in.dht_limit))
  ELSE \/ CellBelow(row.cell[c], Val(in.hum_min))
       \/ CellAbove(row.cell[c], Val(in.hum_max))

DashExceeded(rows, columns, in) ==
  IF DashConditions(columns, in) = {} THEN rows
  ELSE SelectSeq(rows,
                 LAMBDA row : \E c \in DashConditions(columns, in) :
                                DashCondition(row, c, in))

\* admin.py 756-762: the mask starts all False and each limit that is not
\* zero adds its columns; h_min is a float and never None.
AdminMask(row, columns, cfg) ==
  \/ /\ cfg.thermal_temp # 0
     /\ CellAbove(row.cell[IF cfg.thermal_mode = "max" THEN "max_temp"
                           ELSE "avg_temp"], cfg.thermal_temp)
  \/ /\ cfg.dht_temp # 0
     /\ \E c \in columns \cap STempColumns :
          CellAbove(row.cell[c], cfg.dht_temp)
  \/ \E c \in columns \cap SHumColumns :
       \/ CellBelow(row.cell[c], cfg.dht_hum_min)
       \/ CellAbove(row.cell[c], cfg.dht_hum_max)

AdminExceeded(rows, columns, cfg) ==
  SelectSeq(rows, LAMBDA row : AdminMask(row, columns, cfg))

\* round(1) of one cell: the nearest tenth, a tie going to the even one.
Round1(v) ==
  IF v = None THEN None
  ELSE LET n == 10 * Val(v).num
           q == n \div Val(v).den
           r == n % Val(v).den
       IN Some([num |-> IF 2 * r < Val(v).den THEN q
                        ELSE IF 2 * r > Val(v).den THEN q + 1
                        ELSE IF q % 2 = 0 THEN q ELSE q + 1,
                den |-> 10])

\* df_final.round(1).to_dict('records')
RoundRecords(rows) ==
  [k \in DOMAIN rows |->
     [timestamp |-> rows[k].timestamp,
      cell |-> [c \in HistColumns |-> Round1(rows[k].cell[c])]]]

\* The frame before the filter: the two queries, the merge, the resampling.
HistoryFrame(thermal, dht, in) ==
  LET df_thermal ==
        OrderByTimestampDesc(Between(thermal, in.start_ts, in.end_ts))
      df_dht == OrderByTimestampDesc(Between(dht, in.start_ts, in.end_ts))
  IN IF df_thermal = <<>> THEN <<>>
     ELSE IF in.interval = "raw" THEN Merge(df_thermal, df_dht)
          ELSE Resample(Merge(df_thermal, df_dht), in.interval)

\* load_history_data: the records the table shows.
load_history_data(prog, thermal, dht, in, cfg) ==
  LET frame == HistoryFrame(thermal, dht, in)
      columns == MergedColumns(Between(dht, in.start_ts, in.end_ts))
  IN RoundRecords(
       IF ~in.exceeded THEN frame
       ELSE IF prog = "admin" THEN AdminExceeded(frame, columns, cfg)
            ELSE DashExceeded(frame, columns, in))

\* What the store holds of one logged cycle: the frame and the probes' pairs.
HistSamples ==
  {[frame |-> <<40, 58>>, dht |-> <<<<Some(46), Some(50)>>,
                                    <<Some(20), Some(50)>>>>],
   [frame |-> <<20, 40>>, dht |-> <<<<Some(47), Some(50)>>, NullPair>>],
   [frame |-> <<20, 40>>, dht |-> <<<<Some(20), Some(70)>>, NullPair>>],
   [frame |-> <<20, 40>>, dht |-> <<<<Some(20), Some(50)>>, NullPair>>]}

\* The seconds at which a cycle may have been logged: three in the first
\* half of day 0 and one on day 2.
HistTimes == <<1, 2, 3, 21>>

\* The tables after log_to_db has stored the chosen cycles, in time order.
RECURSIVE StoredDht(_, _)
StoredDht(choice, k) ==
  IF k > Len(HistTimes) THEN <<>>
  ELSE (IF choice[k] = None THEN <<>>
        ELSE DhtRows(Strftime(HistTimes[k]), Val(choice[k]).dht, 1))
         \o StoredDht(choice, k + 1)

RECURSIVE StoredThermal(_, _)
StoredThermal(choice, k) ==
  IF k > Len(HistTimes) THEN <<>>
  ELSE (IF choice[k] = None \/ Val(choice[k]).frame = None THEN <<>>
        ELSE ThermalRows(Strftime(HistTimes[k]),
                         Some(ThermalStats(Val(choice[k]).frame)),
                         Some(Val(choice[k]).frame)))
         \o StoredThermal(choice, k + 1)

\* The date and time pickers, and the view mode and filter of the history
\* tab; in dash_db4.py the limits are the State values of the live tab's
\* inputs, in admin.py the callback has no such arguments.
HistoryInputs(prog) ==
  [start_ts : {Strftime(0)}, end_ts : {Strftime(99)},
   interval : {"raw", "5T", "D"}, exceeded : BOOLEAN,
   dht_limit : IF prog = "admin" THEN {None}
               ELSE {None, Some(DEFAULT_DHT_TEMP_THRESHOLD)},
   hum_min : IF prog = "admin" THEN {None}
             ELSE {None, Some(0), Some(DEFAULT_DHT_HUM_MIN_THRESHOLD)},
   hum_max : IF prog = "admin" THEN {None}
             ELSE {Some(DEFAULT_DHT_HUM_MAX_THRESHOLD)},
   thermal_limit : IF prog = "admin" THEN {None}
                   ELSE {None, Some(DEFAULT_THERMAL_TEMP_THRESHOLD)}]

\* admin.py takes the limits from config_cache, which the admin page saves.
HistoryConfigs ==
  {[DefaultSettings EXCEPT !.dht_temp = d, !.thermal_temp = t,
                           !.thermal_mode = m] :
     d \in {0, 45}, t \in {0, 50}, m \in {"max", "avg"}}

\* A dashboard whose store holds cycles drawn from samples and whose saved
\* settings, in admin.py, are drawn from configs.
HistoryStart(samples, configs) ==
  /\ program \in {"dash_db4", "admin"}
  /\ ui = DefaultUi
  /\ settings \in (IF program = "admin" THEN configs
                   ELSE {DefaultSettings})
  /\ config_cache = settings
  /\ last_config_sync = 0
  /\ EvalIdle
  /\ ReplayIdle
  /\ poll_interval = DHT_POLL_INTERVAL
  /\ has_creds = FALSE
  /\ sensed = [i \in Probes |-> Returned(NullPair)]
  /\ row_poll = <<>>
  /\ DispatchIdle
  /\ QueryIdle
  /\ CodecIdle
  /\ StoreIdle
  /\ RelayIdle
  /\ clock = 0
  /\ has_mlx = TRUE
  /\ acq_pc = "top"
  /\ cycles = 0
  /\ current_time = 0
  /\ db_timestamp = Strftime(0)
  /\ last_dht_read_time = 0
  /\ last_db_log_time = 0
  /\ latest_dht_results = [i \in Probes |-> NullPair]
  /\ wi = 1
  /\ time_str = Strftime(0)
  /\ raw_frame = ZeroFrame
  /\ thermal_stats_for_db = None
  /\ thermal_frame_for_db = None
  /\ data_lock = "free"
  /\ SnapshotAfterCycle([i \in Probes |-> [t |-> None, h |-> None]],
                        ZeroFrame)
  /\ \E choice \in [DOMAIN HistTimes ->
                      {None} \cup {Some(c) : c \in samples}] :
       /\ dht_readings = StoredDht(choice, 1)
       /\ thermal_data = StoredThermal(choice, 1)
  /\ rd_pc = "idle"
  /\ rd_copy = EmptyCopy
  /\ log_calls = <<>>

InitHistory == HistoryStart(HistSamples, HistoryConfigs)

\* The Load Data button: the callback computes the table's records.
LoadHistory ==
  /\ hq_in = None
  /\ \E in \in HistoryInputs(program) :
       /\ hq_in' = Some(in)
       /\ hq_out' = Some(load_history_data(program, thermal_data,
                                           dht_readings, in, config_cache))
  /\ UNCHANGED <<clock, has_mlx, acqLocals, data_lock, snapshot, tables,
                 reader, config, appended, log_calls, evalVars, replayVars,
                 env, acqHist, dispatchVars, codecVars, storeVars, relayVars>>

SpecHistory == InitHistory /\ [][LoadHistory]_vars

\* Cycles for the range and merge of a raw query: with both probes, with
\* one probe, and one in which the array gave no frame (frame None), so
\* that only probe rows were stored.
RangeSamples ==
  {[frame |-> <<40, 58>>, dht |-> <<<<Some(46), Some(50)>>,
                                    <<Some(20), Some(50)>>>>],
   [frame |-> <<20, 40>>, dht |-> <<NullPair, <<Some(47), Some(70)>>>>],
   [frame |-> <<20, 40>>, dht |-> <<NullPair, NullPair>>],
   [frame |-> None, dht |-> <<<<Some(46), Some(50)>>, NullPair>>]}

\* f"{start} {time_start}:00" and f"{end} {time_end}:59": the date and the
\* time of the pickers side by side.  A stored timestamp of the model names
\* a day and a minute, which the suffixes :00 and :59 cover.
RangeText(date, time) == <<date, time>>

\* Raw queries without the filter, over ranges that are whole, partial,
\* empty and inverted.
RangeInputs ==
  {[start_ts |-> RangeText(d1, t1), end_ts |-> RangeText(d2, t2),
    interval |-> "raw", exceeded |-> FALSE, dht_limit |-> None,
    hum_min |-> None, hum_max |-> None, thermal_limit |-> None] :
     d1 \in {0, 2}, t1 \in {0, 2}, d2 \in {0, 9}, t2 \in {1, 3}}

InitRange == HistoryStart(RangeSamples, {DefaultSettings})

LoadRange ==
  /\ hq_in = None
  /\ \E in \in RangeInputs :
       /\ hq_in' = Some(in)
       /\ hq_out' = Some(load_history_data(program, thermal_data,
                                           dht_readings, in, config_cache))
  /\ UNCHANGED <<clock, has_mlx, acqLocals, data_lock, snapshot, tables,
                 reader, config, appended, log_calls, evalVars, replayVars,
                 env, acqHist, dispatchVars, codecVars, storeVars, relayVars>>

SpecRange == InitRange /\ [][LoadRange]_vars

(***************************************************************************)
(* The threads of admin.py side by side: the acquisition thread, one       *)
(* browser's ticks of update_live_view with the mail threads they start,   *)
(* one history query and one replay.                                       *)
(***************************************************************************)

\* Iterations of the acquisition loop that run beside the other threads.
MaxOwnerCycles == 1

\* An iteration of the acquisition loop begins.
OwnersTop ==
  /\ cycles < MaxOwnerCycles
  /\ AcqTop

\* The browser does one thing in a run: it ticks, it queries the history
\* or it replays a row.
OwnersTick(e) ==
  /\ QueryIdle
  /\ ReplayIdle
  /\ EvBeginDispatch(e)

OwnersQuery ==
  /\ ticks = 0
  /\ ReplayIdle
  /\ LoadRange

OwnersReplay ==
  /\ ticks = 0
  /\ QueryIdle
  /\ ReplayIdle
  /\ ReplaySelect

OwnersAcquisition ==
  \/ OwnersTop \/ AcqReadDht \/ AcqDhtLock \/ AcqDhtT \/ AcqDhtH
  \/ AcqDhtTime \/ AcqDhtTemp \/ AcqDhtHum \/ AcqDhtUnlock
  \/ AcqNoMlx \/ AcqMlxError \/ AcqMlxFrame \/ AcqMlxLock \/ AcqMlxSetFrame
  \/ AcqMlxTime \/ AcqMlxMin \/ AcqMlxMax \/ AcqMlxAvg \/ AcqMlxUnlock
  \/ AcqLog \/ AcqSkipLog

OwnersEvaluator ==
  \E e \in EvalThreads :
    \/ OwnersTick(e) \/ EvCheck(e) \/ EvSend(e) \/ EvSet(e) \/ EvReturn(e)

OwnersMail ==
  \E k \in DOMAIN runners : Runner(k)

NextOwners ==
  \/ OwnersAcquisition
  \/ OwnersEvaluator
  \/ OwnersMail
  \/ OwnersQuery
  \/ OwnersReplay

InitOwners ==
  /\ poll_interval = DHT_POLL_INTERVAL
  /\ CodecIdle
  /\ StoreIdle
  /\ RelayIdle
  /\ has_creds \in BOOLEAN
  /\ AcqStartState("admin")

SpecOwners == InitOwners /\ [][NextOwners]_vars

(***************************************************************************)
(* The three kinds of thread that take data_lock in admin.py, each at the  *)
(* granularity of its with statement: the acquisition loop (281, 306), a   *)
(* tick of update_live_view (611) and the mail threads' chart renderer     *)
(* generate_dht_history_image (343).  The browser ticks without end; time  *)
(* advances with the iterations of the acquisition loop.                   *)
(***************************************************************************)

\* Iterations of the acquisition loop that run beside the ticks.
MaxLockCycles == 1

\* Mail threads whose steps the scheduler is obliged to take.
MaxLockRunners == 1

\* The callback whose ticks are followed.
LockTick == "cb1"

LockTop ==
  /\ cycles < MaxLockCycles
  /\ AcqTop

\* The acquisition loop of a program that found its thermal array (the
\* branch without one takes the lock for the probes only).
LockAcquisition ==
  \/ LockTop \/ AcqReadDht \/ AcqDhtLock \/ AcqDhtT \/ AcqDhtH
  \/ AcqDhtTime \/ AcqDhtTemp \/ AcqDhtHum \/ AcqDhtUnlock
  \/ AcqMlxError \/ AcqMlxFrame \/ AcqMlxLock \/ AcqMlxSetFrame
  \/ AcqMlxTime \/ AcqMlxMin \/ AcqMlxMax \/ AcqMlxAvg \/ AcqMlxUnlock
  \/ AcqLog \/ AcqSkipLog

\* update_live_view is called and reads the cached settings (lines 596-609);
\* it stands before the with statement of line 611.
TickEnter(e) ==
  /\ \A o \in EvalThreads : ev_pc[o] = "idle"
  /\ ev_pc' = [ev_pc EXCEPT ![e] = "wait"]
  /\ UNCHANGED <<clock, has_mlx, acqLocals, data_lock, snapshot, tables,
                 reader, config, appended, log_calls, program, ui,
                 last_alert_time, ev, dispatched, ticks, replayVars, env,
                 acqHist, dispatchVars, queryVars, codecVars, storeVars,
                 relayVars>>

\* Line 611: with data_lock
TickLock(e) ==
  /\ ev_pc[e] = "wait"
  /\ LockFree
  /\ data_lock' = "reader"
  /\ ev_pc' = [ev_pc EXCEPT ![e] = "copy"]
  /\ UNCHANGED <<clock, has_mlx, acqLocals, snapshot, tables, reader,
                 config, appended, log_calls, program, ui, last_alert_time,
                 ev, dispatched, ticks, replayVars, env, acqHist,
                 dispatchVars, queryVars, codecVars, storeVars, relayVars>>

\* Lines 612-615: the four copies.
TickCopy(e) ==
  /\ ev_pc[e] = "copy"
  /\ rd_copy' = [dht |-> latest_dht, hist |-> dht_history,
                 frame |-> mlx_frame, stats |-> mlx_stats]
  /\ ev_pc' = [ev_pc EXCEPT ![e] = "unlock"]
  /\ UNCHANGED <<clock, has_mlx, acqLocals, data_lock, snapshot, tables,
                 rd_pc, config, appended, log_calls, program, ui,
                 last_alert_time, ev, dispatched, ticks, replayVars, env,
                 acqHist, dispatchVars, queryVars, codecVars, storeVars,
                 relayVars>>

\* The with block ends; lines 617-647 sample time.time() and evaluate the
\* copies against the cached settings.
TickUnlock(e) ==
  /\ ev_pc[e] = "unlock"
  /\ data_lock' = LockRelease(data_lock)
  /\ LET res == EvalLiveView(rd_copy.dht, rd_copy.frame, config_cache)
     IN /\ ev' = [ev EXCEPT ![e] =
                    [now |-> clock + WallOffset,
                     email_addr |-> config_cache.alert_email, res |-> res,
                     alert_msg |->
                       AlertMsg(IF res.triggers # <<>> THEN "alert"
                                ELSE "none", 0)]]
        /\ ev_pc' = [ev_pc EXCEPT ![e] =
                       IF res.triggers # <<>> THEN "check" ELSE "done"]
  /\ rd_copy' = EmptyCopy
  /\ UNCHANGED <<clock, has_mlx, acqLocals, snapshot, tables, rd_pc, config,
                 appended, log_calls, program, ui, last_alert_time,
                 dispatched, ticks, replayVars, env, acqHist, dispatchVars,
                 queryVars, codecVars, storeVars, relayVars>>

\* The steps of a tick once the callback has been entered.
TickRun(e) ==
  \/ TickLock(e) \/ TickCopy(e) \/ TickUnlock(e)
  \/ EvCheck(e) \/ EvSend(e) \/ EvSet(e) \/ EvReturn(e)

LockMail(k) ==
  /\ k \in DOMAIN runners
  /\ Runner(k)

NextLock ==
  \/ LockAcquisition
  \/ TickEnter(LockTick)
  \/ TickRun(LockTick)
  \/ \E k \in 1..MaxLockRunners : LockMail(k)

\* admin.py with mail credentials, an address in the settings and probes
\* beyond their bounds.
InitLock ==
  /\ program = "admin"
  /\ ui = DefaultUi
  /\ settings = [DefaultSettings EXCEPT !.alert_email = OpsAddress]
  /\ DispatchStart
  /\ has_creds = TRUE
  /\ \A i \in Probes : latest_dht[i].h = Some(70)

SpecLock == InitLock /\ [][NextLock]_vars

\* Fair scheduling: a thread that can take a step eventually takes one
\* (weak fairness of each thread), and a thread that stands before a with
\* statement and finds the lock free again and again eventually takes it
\* (strong fairness of the acquire steps; threading.Lock itself hands the
\* lock to any waiter).  The browser is not obliged to tick.
SpecLockFair ==
  /\ SpecLock
  /\ WF_vars(LockAcquisition)
  /\ SF_vars(AcqDhtLock)
  /\ SF_vars(AcqMlxLock)
  /\ WF_vars(TickRun(LockTick))
  /\ SF_vars(TickLock(LockTick))
  /\ \A k \in 1..MaxLockRunners :
       WF_vars(LockMail(k)) /\ SF_vars(k \in DOMAIN runners /\ RunChartLock(k))


(***************************************************************************)
(* The frame codec: json.dumps(raw_frame_arr.tolist()) and zlib.compress   *)
(* in log_to_db (admin.py 230-234), zlib.decompress and json.loads in      *)
(* replay_snapshot (783-788).  A pixel is a number of hundredths of a      *)
(* degree; the grid is MLX_HEIGHT rows of MLX_WIDTH pixels.                *)
(***************************************************************************)
MLX_WIDTH == 2
MLX_HEIGHT == 2

\* The decimal digits of a natural number, most significant first.
RECURSIVE Digits(_)
Digits(n) == IF n < 10 THEN <<n>> ELSE Append(Digits(n \div 10), n % 10)

\* The number a sequence of decimal digits reads as.
RECURSIVE FromDigits(_)
FromDigits(ds) ==
  IF ds = <<>> THEN 0
  ELSE 10 * FromDigits(SubSeq(ds, 1, Len(ds) - 1)) + ds[Len(ds)]

Abs(v) == IF v < 0 THEN -v ELSE v

\* A number printed with one decimal, as "%.1f" would (the digit after it
\* is cut off).
FloatFixed1(v) ==
  [neg |-> v < 0, int |-> Digits(Abs(v) \div 100),
   frac |-> <<(Abs(v) % 100) \div 10>>]

\* float.__repr__, which json.dumps uses: the shortest text that reads back
\* as the same float, with at least one digit after the point.
FloatRepr(v) ==
  [neg |-> v < 0, int |-> Digits(Abs(v) \div 100),
   frac |-> IF Abs(v) % 10 = 0 THEN <<(Abs(v) % 100) \div 10>>
            ELSE <<(Abs(v) % 100) \div 10, Abs(v) % 10>>]

\* json.loads of a number: the float its text denotes.
ParseFloat(txt) ==
  LET hundredths == IF Len(txt.frac) = 1 THEN 10 * txt.frac[1]
                    ELSE 10 * txt.frac[1] + txt.frac[2]
      m == 100 * FromDigits(txt.int) + hundredths
  IN IF txt.neg THEN -m ELSE m

\* json.dumps of one row and of the list of rows.
RECURSIVE JsonRowItems(_)
JsonRowItems(row) ==
  IF row = <<>> THEN <<>>
  ELSE IF Len(row) = 1 THEN <<JsonNum(FloatRepr(row[1]))>>
  ELSE <<JsonNum(FloatRepr(row[1])), JsonPunct(",")>>
         \o JsonRowItems(Tail(row))

RECURSIVE JsonGridItems(_)
JsonGridItems(grid) ==
  IF grid = <<>> THEN <<>>
  ELSE <<JsonPunct("[")>> \o JsonRowItems(Head(grid)) \o <<JsonPunct("]")>>
         \o (IF Len(grid) = 1 THEN <<>> ELSE <<JsonPunct(",")>>)
         \o JsonGridItems(Tail(grid))

JsonDumpsGrid(grid) ==
  <<JsonPunct("[")>> \o JsonGridItems(grid) \o <<JsonPunct("]")>>

\* json.loads of such a text, read token by token from position k: "["
\* opens a row, a number goes to the open row, "]" closes it.
RECURSIVE JsonLoadsRows(_, _, _, _)
JsonLoadsRows(txt, k, row, rows) ==
  IF k > Len(txt) THEN rows
  ELSE IF txt[k].tok = "[" THEN JsonLoadsRows(txt, k + 1, <<>>, rows)
  ELSE IF txt[k].tok = "num"
    THEN JsonLoadsRows(txt, k + 1, Append(row, ParseFloat(txt[k].val)), rows)
  ELSE IF txt[k].tok = "]"
    THEN JsonLoadsRows(txt, k + 1, <<>>, Append(rows, row))
  ELSE JsonLoadsRows(txt, k + 1, row, rows)

\* np.array(json.loads(text)): the rows between the outer brackets.
JsonLoadsGrid(txt) == JsonLoadsRows(SubSeq(txt, 2, Len(txt) - 1), 1, <<>>, <<>>)

\* frame_arr.reshape((MLX_HEIGHT, MLX_WIDTH)) of the flat buffer.
Reshape(flat) ==
  [r \in 1..MLX_HEIGHT |->
     [c \in 1..MLX_WIDTH |-> flat[(r - 1) * MLX_WIDTH + c]]]

\* np.max(frame_arr) > 150, in hundredths.
GridGlitch(grid) ==
  \E r \in DOMAIN grid : \E c \in DOMAIN grid[r] :
    grid[r][c] > GLITCH_CEILING * 100

\* Pixels the array can deliver: below zero, with one and with two
\* decimals, at the glitch ceiling and just above it.
PixelValues == {-512, 2050, 15000, 15001}

\* The acquisition loop has a frame in hand.
InitCodec ==
  /\ AcqStart
  /\ StoreIdle
  /\ RelayIdle
  /\ poll_interval = DHT_POLL_INTERVAL
  /\ \E flat \in [1..(MLX_HEIGHT * MLX_WIDTH) -> PixelValues] :
       codec_grid = Some(Reshape(flat))
  /\ codec_blob = None
  /\ codec_arr = None

\* log_to_db stores the frame the glitch filter has accepted.
CodecStore ==
  /\ codec_blob = None
  /\ ~GridGlitch(Val(codec_grid))
  /\ codec_blob' = Some(ZlibCompress(JsonDumpsGrid(Val(codec_grid))))
  /\ UNCHANGED <<clock, has_mlx, acqLocals, data_lock, snapshot, tables,
                 reader, config, appended, log_calls, evalVars, replayVars,
                 env, acqHist, dispatchVars, queryVars, codec_grid,
                 codec_arr, storeVars, relayVars>>

\* replay_snapshot decodes the stored blob.
CodecReplay ==
  /\ codec_blob # None
  /\ codec_arr = None
  /\ codec_arr' = Some(JsonLoadsGrid(ZlibDecompress(Val(codec_blob))))
  /\ UNCHANGED <<clock, has_mlx, acqLocals, data_lock, snapshot, tables,
                 reader, config, appended, log_calls, evalVars, replayVars,
                 env, acqHist, dispatchVars, queryVars, codec_grid,
                 codec_blob, storeVars, relayVars>>

NextCodec == CodecStore \/ CodecReplay

SpecCodec == InitCodec /\ [][NextCodec]_vars

(***************************************************************************)
(* The settings of admin.py as Python values: what the save button hands   *)
(* over, what the settings table stores, and what float() makes of them.   *)
(***************************************************************************)

DigitChars == <<"0", "1", "2", "3", "4", "5", "6", "7", "8", "9">>

\* str(n) of a natural number.
DecimalText(n) == [k \in DOMAIN Digits(n) |-> DigitChars[Digits(n)[k] + 1]]

\* The value of an emptied number input, a number, and a text.
PyNone == [type |-> "NoneType", text |-> <<>>]
PyInt(n) == [type |-> "int", text |-> DecimalText(n)]
PyStr(text) == [type |-> "str", text |-> text]

\* str(v), as update_global_config stores every value (line 149).
PyStrOf(v) ==
  IF v.type = "NoneType" THEN PyStr(<<"N", "o", "n", "e">>)
  ELSE PyStr(v.text)

\* The text is a decimal numeral.
IsNumeral(text) ==
  /\ text # <<>>
  /\ \A k \in DOMAIN text : \E d \in DOMAIN DigitChars : DigitChars[d] = text[k]

\* float(v) raises TypeError for None and ValueError for a text that is not
\* a numeral.
FloatRaises(v) ==
  \/ v.type = "NoneType"
  \/ v.type = "str" /\ ~IsNumeral(v.text)

\* float(v) where it does not raise.
PyFloat(v) ==
  FromDigits([k \in DOMAIN v.text |->
                (CHOOSE d \in DOMAIN DigitChars : DigitChars[d] = v.text[k])
                  - 1])

\* The threshold fields of the settings.
ThresholdKeys == {"dht_temp", "dht_hum_min", "dht_hum_max", "thermal_temp"}

\* The settings table after init_db (lines 115-121): texts.
StoredDefaults ==
  [dht_temp |-> PyStr(DecimalText(DEFAULT_DHT_TEMP_THRESHOLD)),
   dht_hum_min |-> PyStr(DecimalText(DEFAULT_DHT_HUM_MIN_THRESHOLD)),
   dht_hum_max |-> PyStr(DecimalText(DEFAULT_DHT_HUM_MAX_THRESHOLD)),
   thermal_temp |-> PyStr(DecimalText(DEFAULT_THERMAL_TEMP_THRESHOLD)),
   thermal_mode |-> "max", alert_email |-> OpsAddress]

\* What the form holds when the save button is pressed: the probe
\* temperature bound and the thermal bound are at their defaults or have
\* been emptied.
SaveForms ==
  [dht_temp : {PyNone, PyInt(DEFAULT_DHT_TEMP_THRESHOLD)},
   dht_hum_min : {PyInt(DEFAULT_DHT_HUM_MIN_THRESHOLD)},
   dht_hum_max : {PyInt(DEFAULT_DHT_HUM_MAX_THRESHOLD)},
   thermal_temp : {PyNone, PyInt(DEFAULT_THERMAL_TEMP_THRESHOLD)},
   thermal_mode : {"max"}, alert_email : {OpsAddress}]

\* The rows update_global_config writes for new_config (lines 148-149).
StoredConfig(new_config) ==
  [k \in DOMAIN new_config |->
     IF k \in ThresholdKeys THEN PyStrOf(new_config[k]) ELSE new_config[k]]

\* The mapping get_global_config returns when sqlite raises (lines 142-143).
EmptyConfig == [k \in {} |-> PyNone]

\* The defaults of the .get calls of update_live_view (lines 604-609).
ConfigFallback ==
  [dht_temp |-> PyInt(100), dht_hum_min |-> PyInt(0),
   dht_hum_max |-> PyInt(100), thermal_temp |-> PyInt(100),
   thermal_mode |-> "max", alert_email |-> <<>>]

\* config_cache.get(key, default)
ConfigGet(cache, key) ==
  IF key \in DOMAIN cache THEN cache[key] ELSE ConfigFallback[key]

InitConfig ==
  /\ program = "admin"
  /\ ui = DefaultUi
  /\ settings = StoredDefaults
  /\ config_cache = settings
  /\ EvalStart
  /\ mlx_frame \in {ZeroFrame, <<20, 150>>}

\* sync_config on the save button (lines 575-580): the settings are written,
\* or the write fails and is logged (153-156); config_cache is the form's
\* dictionary either way.
SaveConfig ==
  /\ \A e \in EvalThreads : ev_pc[e] = "idle"
  /\ \E new_conf \in SaveForms :
       /\ \/ settings' = StoredConfig(new_conf)
          \/ settings' = settings
       /\ config_cache' = new_conf
  /\ UNCHANGED <<clock, has_mlx, acqLocals, data_lock, snapshot, tables,
                 reader, last_config_sync, appended, log_calls, evalVars,
                 replayVars, env, acqHist, dispatchVars, queryVars,
                 codecVars, storeVars, relayVars>>

\* The acquisition thread's periodic re-sync (lines 264-266):
\* config_cache = get_global_config().
ConfigResync ==
  /\ \A e \in EvalThreads : ev_pc[e] = "idle"
  /\ config_cache # get_global_config
  /\ config_cache' = get_global_config
  /\ UNCHANGED <<clock, has_mlx, acqLocals, data_lock, snapshot, tables,
                 reader, settings, last_config_sync, appended, log_calls,
                 evalVars, replayVars, env, acqHist, dispatchVars, queryVars,
                 codecVars, storeVars, relayVars>>

\* update_live_view from its entry to the test of line 649: the four
\* float() calls of lines 604-607 come first, and an exception in one of
\* them ends the callback; otherwise the tick evaluates as in EvBegin.
LiveViewBegin(e) ==
  /\ \A o \in EvalThreads : ev_pc[o] = "idle"
  /\ ticks < MaxTicks
  /\ LockFree
  /\ \E d \in EvalDeltas : clock' = clock + d
  /\ ticks' = ticks + 1
  /\ IF \E k \in ThresholdKeys : FloatRaises(ConfigGet(config_cache, k))
     THEN /\ ev_pc' = [ev_pc EXCEPT ![e] = "raised"]
          /\ UNCHANGED ev
     ELSE LET lim(k) == PyFloat(ConfigGet(config_cache, k))
              cfg == [dht_temp |-> lim("dht_temp"),
                      dht_hum_min |-> lim("dht_hum_min"),
                      dht_hum_max |-> lim("dht_hum_max"),
                      thermal_temp |-> lim("thermal_temp"),
                      thermal_mode |->
                        ConfigGet(config_cache, "thermal_mode"),
                      alert_email |->
                        ConfigGet(config_cache, "alert_email")]
              res == EvalLiveView(latest_dht, mlx_frame, cfg)
          IN /\ ev' = [ev EXCEPT ![e] =
                         [now |-> clock' + WallOffset,
                          email_addr |-> cfg.alert_email, res |-> res,
                          alert_msg |->
                            AlertMsg(IF res.triggers # <<>> THEN "alert"
                                     ELSE "none", 0)]]
             /\ ev_pc' = [ev_pc EXCEPT ![e] =
                            IF res.triggers # <<>> THEN "check" ELSE "done"]
  /\ UNCHANGED <<has_mlx, acqLocals, data_lock, snapshot, tables, reader,
                 config, appended, log_calls, program, ui, last_alert_time,
                 dispatched, replayVars, env, acqHist, dispatchVars,
                 queryVars, codecVars, storeVars, relayVars>>

\* The exception leaves the callback; the next interval fires a new tick.
LiveViewRaised(e) ==
  /\ ev_pc[e] = "raised"
  /\ ev_pc' = [ev_pc EXCEPT ![e] = "idle"]
  /\ UNCHANGED <<clock, has_mlx, acqLocals, data_lock, snapshot, tables,
                 reader, config, appended, log_calls, program, ui,
                 last_alert_time, ev, dispatched, ticks, replayVars, env,
                 acqHist, dispatchVars, queryVars, codecVars, storeVars, relayVars>>

NextConfig ==
  \/ SaveConfig
  \/ ConfigResync
  \/ \E e \in EvalThreads :
       \/ LiveViewBegin(e) \/ LiveViewRaised(e) \/ EvCheck(e) \/ EvSend(e)
       \/ EvSet(e) \/ EvReturn(e)

SpecConfig == InitConfig /\ [][NextConfig]_vars

\* What the loop assigns when the reload failed: the empty mapping that
\* get_global_config returned; the variant keeps the last good mapping.
ReloadKeepsLast(cache) == cache
ReloadFailure(cache) == EmptyConfig

\* Seconds between two iterations of the acquisition loop that reload.
ReloadDeltas == {CONFIG_SYNC_PERIOD + 1}

\* Reloads the acquisition loop performs in a run.
MaxReloads == 2

\* Lines 262-268 of the acquisition loop, more than CONFIG_SYNC_PERIOD
\* after the last reload: config_cache = get_global_config(), which returns
\* the table or, when sqlite raises, the empty mapping.
ReloadSync ==
  /\ \A e \in EvalThreads : ev_pc[e] = "idle"
  /\ cycles < MaxReloads
  /\ \E d \in ReloadDeltas :
       /\ clock' = clock + d
       /\ current_time' = clock + d
       /\ db_timestamp' = Strftime(clock + d)
  /\ current_time' - last_config_sync > CONFIG_SYNC_PERIOD
  /\ cycles' = cycles + 1
  /\ \/ config_cache' = get_global_config
     \/ config_cache' = ReloadFailure(config_cache)
  /\ last_config_sync' = current_time'
  /\ UNCHANGED <<has_mlx, acq_pc, last_dht_read_time, last_db_log_time,
                 latest_dht_results, wi, time_str, raw_frame,
                 thermal_stats_for_db, thermal_frame_for_db, data_lock,
                 snapshot, tables, reader, settings, appended, log_calls,
                 evalVars, replayVars, env, acqHist, dispatchVars, queryVars,
                 codecVars, storeVars, relayVars>>

\* Ticks of update_live_view in a run with reloads.
MaxReloadTicks == 2

\* The administrator saves before the dashboard's first tick.
ReloadSave ==
  /\ ticks = 0
  /\ SaveConfig

ReloadTick(e) ==
  /\ ticks < MaxReloadTicks
  /\ LiveViewBegin(e)

NextReload ==
  \/ ReloadSave
  \/ ReloadSync
  \/ \E e \in EvalThreads :
       \/ ReloadTick(e) \/ LiveViewRaised(e) \/ EvCheck(e) \/ EvSend(e)
       \/ EvSet(e) \/ EvReturn(e)

SpecReload == InitConfig /\ [][NextReload]_vars

(***************************************************************************)
(* The periodic reload of the acquisition loop (admin.py 262-267) next to  *)
(* the save button of sync_config (575-580), statement by statement: the   *)
(* reload reads the settings table and then assigns config_cache; the save *)
(* writes the table and then assigns config_cache.  The settings table is  *)
(* readable here; a reload whose read raises is the subject of ReloadSync. *)
(***************************************************************************)

\* A loop that never reloads.
ConfigSyncNever(now, last) == FALSE
\* Line 265: (current_time - last_config_sync) > 5.0
ConfigSyncDue(now, last) == now - last > CONFIG_SYNC_PERIOD

\* Seconds one iteration of the loop takes (a frame read, the probes, a
\* sleep).
SyncDeltas == {1, 3, 6}

\* The loop is followed up to this time.
SyncHorizon == 12

\* Saves the administrator makes in a run.
MaxSaves == 2

syncRest == <<has_mlx, cycles, last_dht_read_time, last_db_log_time,
              latest_dht_results, wi, time_str, raw_frame,
              thermal_stats_for_db, thermal_frame_for_db, data_lock,
              snapshot, tables, reader, appended, log_calls, evalVars,
              replayVars, env, acqHist, dispatchVars, queryVars, codecVars,
              starts, txn, hq_thermal, relayVars>>

\* Lines 262-265: the loop samples the clocks and tests whether the reload
\* is due.
SyncTop ==
  /\ acq_pc = "top"
  /\ clock < SyncHorizon
  /\ \E d \in SyncDeltas :
       /\ clock' = clock + d
       /\ current_time' = clock + d
       /\ db_timestamp' = Strftime(clock + d)
  /\ acq_pc' = IF ConfigSyncDue(current_time', last_config_sync)
               THEN "sync_read" ELSE "sync_done"
  /\ UNCHANGED <<config, sync_rows, save_pc, save_conf, save_at, saves,
                 syncRest>>

\* Line 266, right-hand side: get_global_config() returns the table as it
\* is now.
SyncRead ==
  /\ acq_pc = "sync_read"
  /\ sync_rows' = Some(get_global_config)
  /\ acq_pc' = "sync_assign"
  /\ UNCHANGED <<clock, current_time, db_timestamp, config, save_pc,
                 save_conf, save_at, saves, syncRest>>

\* Lines 266-267: config_cache = <the mapping returned>;
\* last_config_sync = current_time.
SyncAssign ==
  /\ acq_pc = "sync_assign"
  /\ config_cache' = Val(sync_rows)
  /\ last_config_sync' = current_time
  /\ acq_pc' = "sync_done"
  /\ UNCHANGED <<clock, current_time, db_timestamp, settings, sync_rows,
                 save_pc, save_conf, save_at, saves, syncRest>>

\* Lines 269-321: the rest of the iteration; it reads and writes neither
\* the settings table nor config_cache.
SyncRest ==
  /\ acq_pc = "sync_done"
  /\ acq_pc' = "top"
  /\ UNCHANGED <<clock, current_time, db_timestamp, config, sync_rows,
                 save_pc, save_conf, save_at, saves, syncRest>>

\* sync_config with ctx_id = 'btn-save-config', lines 575-576: new_conf is
\* built from the form.
SyncSaveBegin ==
  /\ save_pc = "idle"
  /\ saves < MaxSaves
  /\ \E new_conf \in SaveForms : save_conf' = Some(new_conf)
  /\ saves' = saves + 1
  /\ save_pc' = "write"
  /\ UNCHANGED <<clock, acq_pc, current_time, db_timestamp, config,
                 sync_rows, save_at, syncRest>>

\* Line 577: update_global_config(new_conf) replaces every row and commits
\* (148-150), or raises before the commit and returns False (153-156).
SyncSaveWrite ==
  /\ save_pc = "write"
  /\ \/ settings' = StoredConfig(Val(save_conf))
     \/ settings' = settings
  /\ save_pc' = "assign"
  /\ UNCHANGED <<clock, acq_pc, current_time, db_timestamp, config_cache,
                 last_config_sync, sync_rows, save_conf, save_at, saves,
                 syncRest>>

\* Lines 578-580: config_cache = new_conf, and the callback returns.
SyncSaveAssign ==
  /\ save_pc = "assign"
  /\ config_cache' = Val(save_conf)
  /\ save_at' = Some(clock)
  /\ save_pc' = "idle"
  /\ UNCHANGED <<clock, acq_pc, current_time, db_timestamp, settings,
                 last_config_sync, sync_rows, save_conf, saves, syncRest>>

SyncLoop == SyncTop \/ SyncRead \/ SyncAssign \/ SyncRest

NextSync == SyncLoop \/ SyncSaveBegin \/ SyncSaveWrite \/ SyncSaveAssign

\* The program with the seeded settings, before a probe has answered.
InitSync ==
  /\ InitConfig
  /\ mlx_frame = ZeroFrame
  /\ \A i \in Probes : latest_dht[i].t = None

SpecSync == InitSync /\ [][NextSync]_vars

\* The acquisition loop is the body of a thread of its own (while True,
\* line 261) that the interpreter keeps scheduling: a step of the loop that
\* is possible is eventually taken.  Nothing obliges the administrator to
\* save.
SpecSyncFair == SpecSync /\ WF_vars(SyncLoop)



(***************************************************************************)
(* log_to_db statement by statement (admin.py 222-238, dash_db4.py         *)
(* 190-206): the inserts run in the implicit transaction of the function's *)
(* own connection, conn.commit() makes them durable together, and an       *)
(* exception before it drops the connection with the transaction.          *)
(***************************************************************************)

\* Iterations of the acquisition loop in a run that follows log_to_db.
MaxLogCycles == 2

\* What a second connection reads: committed rows only; the variant reads
\* the open transaction's rows as well.
VisibleUncommitted(committed, pending) == committed \o pending
Visible(committed, pending) == committed

logRest == <<clock, raw_frame, has_mlx, cycles, current_time, db_timestamp,
             last_dht_read_time, latest_dht_results, time_str,
             thermal_stats_for_db, thermal_frame_for_db, data_lock, snapshot,
             reader, config, appended, evalVars, replayVars, env, sensed,
             dispatchVars, codecVars, starts, sync_rows, save_pc, save_conf,
                 save_at, saves, relayVars>>

LogTop ==
  /\ cycles < MaxLogCycles
  /\ AcqTop

\* Lines 317-318 and 223-225: the limiter is open, log_to_db connects.
LogBegin ==
  /\ acq_pc = "log"
  /\ LogDue
  /\ \/ acq_pc' = "log_dht"
     \/ acq_pc' = "log_except"
  /\ wi' = 1
  /\ txn' = NoTxn
  /\ UNCHANGED <<logRest, tables, row_poll, last_db_log_time, log_calls,
                 queryVars,
                 hq_thermal>>

\* Lines 226-229: one pass of the loop over dht_results; the INSERT of a
\* probe with a temperature joins the transaction, or raises.
LogInsertDht ==
  /\ acq_pc = "log_dht"
  /\ IF wi \notin Probes
     THEN /\ acq_pc' = "log_thermal"
          /\ UNCHANGED <<wi, txn>>
     ELSE IF latest_dht_results[wi][1] = None
     THEN /\ acq_pc' = "log_dht"
          /\ wi' = wi + 1
          /\ UNCHANGED txn
     ELSE \/ /\ txn' = [txn EXCEPT !.dht =
                          Append(@, DhtRows(db_timestamp,
                                            latest_dht_results, wi)[1])]
             /\ wi' = wi + 1
             /\ acq_pc' = "log_dht"
          \/ /\ acq_pc' = "log_except"
             /\ UNCHANGED <<wi, txn>>
  /\ UNCHANGED <<logRest, tables, row_poll, last_db_log_time, log_calls,
                 queryVars,
                 hq_thermal>>

\* Lines 230-234: the frame is serialized and compressed and its row is
\* inserted, or one of the three raises.
LogInsertThermal ==
  /\ acq_pc = "log_thermal"
  /\ \/ /\ txn' = [txn EXCEPT !.thermal =
                       @ \o ThermalRows(db_timestamp, thermal_stats_for_db,
                                         thermal_frame_for_db)]
        /\ acq_pc' = "log_commit"
     \/ /\ thermal_stats_for_db # None
        /\ acq_pc' = "log_except"
        /\ UNCHANGED txn
  /\ UNCHANGED <<logRest, tables, row_poll, wi, last_db_log_time, log_calls,
                 queryVars,
                 hq_thermal>>

\* Lines 235-236: conn.commit() makes every row of the transaction
\* durable, or raises and none is.
LogCommit ==
  /\ acq_pc = "log_commit"
  /\ \/ /\ dht_readings' = dht_readings \o txn.dht
        /\ thermal_data' = thermal_data \o txn.thermal
        /\ row_poll' = row_poll \o [k \in 1..Len(txn.dht) |->
                                      last_dht_read_time]
        /\ txn' = NoTxn
        /\ acq_pc' = "log_end"
     \/ /\ acq_pc' = "log_except"
        /\ UNCHANGED <<tables, row_poll, txn>>
  /\ UNCHANGED <<logRest, wi, last_db_log_time, log_calls, queryVars,
                 hq_thermal>>

\* Lines 237-238: the error is logged; the function returns, its
\* connection is dropped and the open transaction with it.
LogExcept ==
  /\ acq_pc = "log_except"
  /\ txn' = NoTxn
  /\ acq_pc' = "log_end"
  /\ UNCHANGED <<logRest, tables, row_poll, wi, last_db_log_time, log_calls,
                 queryVars,
                 hq_thermal>>

\* Line 319: last_db_log_time = current_time.
LogEnd ==
  /\ acq_pc = "log_end"
  /\ last_db_log_time' = current_time
  /\ log_calls' = Append(log_calls, current_time)
  /\ acq_pc' = "top"
  /\ UNCHANGED <<logRest, tables, row_poll, wi, txn, queryVars,
                 hq_thermal>>

\* The Load Data button while the loop runs: load_history_data reads the
\* two tables through a connection of its own, in two queries.  Line 720:
\* the first query reads thermal_data.
LogQueryThermal ==
  /\ hq_in = None
  /\ \E in \in RangeInputs : hq_in' = Some(in)
  /\ hq_thermal' = Some(Visible(thermal_data, txn.thermal))
  /\ UNCHANGED <<logRest, acq_pc, wi, last_db_log_time, tables, row_poll,
                 log_calls, txn, hq_out>>

\* Lines 721-774: the second query reads dht_readings, and the callback
\* computes the table's records from the two results.
LogQueryDht ==
  /\ hq_in # None
  /\ hq_out = None
  /\ hq_out' = Some(load_history_data(program, Val(hq_thermal),
                                      Visible(dht_readings, txn.dht),
                                      Val(hq_in), config_cache))
  /\ UNCHANGED <<logRest, acq_pc, wi, last_db_log_time, tables, row_poll,
                 log_calls, txn, hq_thermal, hq_in>>

LogAcquisition ==
  \/ LogTop \/ AcqReadDht \/ AcqDhtLock \/ AcqDhtT \/ AcqDhtH
  \/ AcqDhtTime \/ AcqDhtTemp \/ AcqDhtHum \/ AcqDhtUnlock
  \/ AcqNoMlx \/ AcqMlxError \/ AcqMlxFrame \/ AcqMlxLock \/ AcqMlxSetFrame
  \/ AcqMlxTime \/ AcqMlxMin \/ AcqMlxMax \/ AcqMlxAvg \/ AcqMlxUnlock
  \/ AcqSkipLog
  \/ LogBegin \/ LogInsertDht \/ LogInsertThermal \/ LogCommit
  \/ LogExcept \/ LogEnd

NextLog == LogAcquisition \/ LogQueryThermal \/ LogQueryDht

SpecLog == InitAcq /\ [][NextLog]_vars

(***************************************************************************)
(* Seeding the settings table: init_db (admin.py 108-126), run at every    *)
(* start of the program on the database file the last run left behind.     *)
(***************************************************************************)

ConfigKeys == DOMAIN StoredDefaults

\* The defaults of lines 115-119, as the texts init_db inserts.
SeedDefaults == [StoredDefaults EXCEPT !.alert_email = <<>>]

\* Values an administrator has saved that differ from the defaults.
SavedValues ==
  [dht_temp |-> PyStr(DecimalText(55)), dht_hum_min |-> PyStr(DecimalText(20)),
   dht_hum_max |-> PyStr(DecimalText(70)),
   thermal_temp |-> PyStr(DecimalText(80)), thermal_mode |-> "avg",
   alert_email |-> OpsAddress]

\* The settings table the program may find at its first start: no row (a
\* new database), or rows for some keys (a database of an earlier version),
\* each with a saved value.
SeedTables == {[k \in ks |-> SavedValues[k]] : ks \in SUBSET ConfigKeys}

\* INSERT OR REPLACE instead of INSERT OR IGNORE.
InsertOrReplace(table, k, v) == v
\* INSERT OR IGNORE INTO settings (key, value) VALUES (k, v), line 121: the
\* value the key has afterwards.
InsertOrIgnore(table, k, v) == IF k \in DOMAIN table THEN table[k] ELSE v

\* The table after the loop of lines 120-121 and the commit.
init_db(table) ==
  [k \in DOMAIN table \cup ConfigKeys |->
     IF k \in ConfigKeys THEN InsertOrIgnore(table, k, SeedDefaults[k])
     ELSE table[k]]

\* Starts of the program in a run.
MaxStarts == 3

\* The program starts: init_db() at line 126, then
\* config_cache = get_global_config() at line 158.
ProgramStart ==
  /\ starts < MaxStarts
  /\ starts' = starts + 1
  /\ settings' = init_db(settings)
  /\ config_cache' = settings'
  /\ UNCHANGED <<clock, has_mlx, acqLocals, data_lock, snapshot, tables,
                 reader, last_config_sync, appended, log_calls, evalVars,
                 replayVars, env, acqHist, dispatchVars, queryVars,
                 codecVars, txn, hq_thermal, sync_rows, save_pc, save_conf,
                 save_at, saves, relayVars>>

\* The save button, while the program runs.
SeedSave ==
  /\ starts > 0
  /\ SaveConfig

NextSeed == ProgramStart \/ SeedSave

\* Before the first init_db of a run of starts.
InitSeed ==
  /\ settings \in SeedTables
  /\ config_cache = EmptyConfig
  /\ last_config_sync = 0
  /\ starts = 0
  /\ txn = NoTxn
  /\ hq_thermal = None
  /\ sync_rows = None
  /\ save_pc = "idle"
  /\ save_conf = None
  /\ save_at = None
  /\ saves = 0
  /\ RelayIdle
  /\ CodecIdle
  /\ DispatchIdle
  /\ QueryIdle
  /\ EvalIdle
  /\ ReplayIdle
  /\ program = "admin"
  /\ ui = DefaultUi
  /\ poll_interval = DHT_POLL_INTERVAL
  /\ has_creds = FALSE
  /\ sensed = [i \in Probes |-> Returned(NullPair)]
  /\ row_poll = <<>>
  /\ clock = 0
  /\ has_mlx = FALSE
  /\ acq_pc = "top"
  /\ cycles = 0
  /\ current_time = 0
  /\ db_timestamp = Strftime(0)
  /\ last_dht_read_time = 0
  /\ last_db_log_time = 0
  /\ latest_dht_results = [i \in Probes |-> NullPair]
  /\ wi = 1
  /\ time_str = Strftime(0)
  /\ raw_frame = ZeroFrame
  /\ thermal_stats_for_db = None
  /\ thermal_frame_for_db = None
  /\ data_lock = "free"
  /\ latest_dht = [i \in Probes |-> [t |-> None, h |-> None]]
  /\ dht_history = [i \in Probes |-> create_history]
  /\ mlx_frame = ZeroFrame
  /\ mlx_stats = EmptyStats
  /\ dht_readings = <<>>
  /\ thermal_data = <<>>
  /\ rd_pc = "idle"
  /\ rd_copy = EmptyCopy
  /\ appended = [dht |-> [i \in Probes |-> create_history], mlx |-> EmptyStats]
  /\ log_calls = <<>>

SpecSeed == InitSeed /\ [][NextSeed]_vars

(***************************************************************************)
(* The relay server: server.py.  Flask serves every request in a thread of *)
(* its own; receive_data handles POST /api/data and get_data handles       *)
(* GET /api/get_data.                                                      *)
(***************************************************************************)

\* A JSON object with some of the five keys, every present key holding v.
RelayObject(keys, v) == [kind |-> "object", fields |-> [f \in keys |-> Some(v)]]

\* Bodies a client may POST: text that is not JSON, JSON that is falsy in
\* Python ({}, [], 0, "", null), a JSON value that is neither falsy nor an
\* object, and objects with all five keys or with some of them.
PostBodies ==
  {[kind |-> "invalid", fields |-> <<>>],
   [kind |-> "falsy", fields |-> <<>>],
   [kind |-> "list", fields |-> <<>>],
   RelayObject(RelayFields, 1),
   RelayObject(RelayFields, 2),
   RelayObject({"t1", "thermal_image"}, 3)}

\* data.get(f): the value, or None for a key that is missing.
DataGet(data, f) ==
  IF f \in DOMAIN data.fields THEN data.fields[f] ELSE None

\* What latest_data holds when all five assignments of one POST are done.
FieldsOf(data) == [f \in RelayFields |-> DataGet(data, f)]

\* The order of the five assignments (lines 28-32).
FieldOrder == <<"t1", "h1", "t2", "h2", "thermal_image">>

PostHolder(r) == <<"post1", "post2">>[r]
GetHolder(r) == <<"get1", "get2">>[r]

\* with data_lock: the lock can be taken; the variant never waits.
RelayLockIgnored == TRUE
RelayLockFree == relay_lock = "free"

relayRest == <<clock, has_mlx, acqLocals, data_lock, snapshot, tables, reader,
               config, appended, log_calls, evalVars, replayVars, env,
               acqHist, dispatchVars, queryVars, codecVars, storeVars>>

\* A POST arrives.
PostBegin(r) ==
  /\ posts[r].pc = "idle"
  /\ \E body \in PostBodies :
       posts' = [posts EXCEPT ![r] =
                   [pc |-> "check", data |-> Some(body), status |-> 0,
                    body |-> None]]
  /\ UNCHANGED <<relayRest, relay_lock, relay_data, gets>>

\* Lines 22-25: request.json raises 400 for text that is not JSON, and a
\* falsy value is answered with 400 "Invalid JSON".
PostCheck(r) ==
  /\ posts[r].pc = "check"
  /\ posts' = [posts EXCEPT
                 ![r].pc = IF Val(posts[r].data).kind \in {"invalid", "falsy"}
                           THEN "done" ELSE "lock",
                 ![r].status = IF Val(posts[r].data).kind
                                    \in {"invalid", "falsy"}
                               THEN 400 ELSE 0]
  /\ UNCHANGED <<relayRest, relay_lock, relay_data, gets>>

\* Line 26: with data_lock
PostLock(r) ==
  /\ posts[r].pc = "lock"
  /\ RelayLockFree
  /\ relay_lock' = PostHolder(r)
  /\ posts' = [posts EXCEPT ![r].pc = "set", ![r].status = 1]
  /\ UNCHANGED <<relayRest, relay_data, gets>>

\* Lines 28-32: one assignment latest_data[f] = data.get(f); status counts
\* the field.  A value without .get raises AttributeError in the first of
\* them: the with block releases the lock and Flask answers 500.
PostSet(r) ==
  /\ posts[r].pc = "set"
  /\ IF Val(posts[r].data).kind # "object"
     THEN /\ relay_lock' = "free"
          /\ posts' = [posts EXCEPT ![r].pc = "done", ![r].status = 500]
          /\ UNCHANGED relay_data
     ELSE LET k == posts[r].status
          IN /\ relay_data' =
                  [relay_data EXCEPT
                     ![FieldOrder[k]] = DataGet(Val(posts[r].data),
                                                FieldOrder[k])]
             /\ posts' = [posts EXCEPT
                            ![r].pc = IF k = Len(FieldOrder) THEN "unlock"
                                      ELSE "set",
                            ![r].status = IF k = Len(FieldOrder) THEN 0
                                          ELSE k + 1]
             /\ UNCHANGED relay_lock
  /\ UNCHANGED <<relayRest, gets>>

\* Lines 32-34: the with block ends; 200 "Data received".
PostUnlock(r) ==
  /\ posts[r].pc = "unlock"
  /\ relay_lock' = "free"
  /\ posts' = [posts EXCEPT ![r].pc = "done", ![r].status = 200]
  /\ UNCHANGED <<relayRest, relay_data, gets>>

\* The response has been sent; the thread can serve the next request.
PostReturn(r) ==
  /\ posts[r].pc = "done"
  /\ posts' = [posts EXCEPT ![r].pc = "idle"]
  /\ UNCHANGED <<relayRest, relay_lock, relay_data, gets>>

\* A GET arrives; line 39: with data_lock
GetLock(r) ==
  /\ gets[r].pc = "idle"
  /\ RelayLockFree
  /\ relay_lock' = GetHolder(r)
  /\ gets' = [gets EXCEPT ![r] =
                [pc |-> "copy", data |-> None, status |-> 0, body |-> None]]
  /\ UNCHANGED <<relayRest, relay_data, posts>>

\* Line 40: jsonify(latest_data.copy()), evaluated inside the with block.
GetCopy(r) ==
  /\ gets[r].pc = "copy"
  /\ gets' = [gets EXCEPT ![r].pc = "unlock", ![r].body = Some(relay_data)]
  /\ UNCHANGED <<relayRest, relay_lock, relay_data, posts>>

\* The return leaves the with block; the response is sent.
GetUnlock(r) ==
  /\ gets[r].pc = "unlock"
  /\ relay_lock' = "free"
  /\ gets' = [gets EXCEPT ![r].pc = "idle", ![r].status = 200]
  /\ UNCHANGED <<relayRest, relay_data, posts>>

NextRelay ==
  \E r \in RelayThreads :
    \/ PostBegin(r) \/ PostCheck(r) \/ PostLock(r) \/ PostSet(r)
    \/ PostUnlock(r) \/ PostReturn(r)
    \/ GetLock(r) \/ GetCopy(r) \/ GetUnlock(r)

InitRelay ==
  /\ poll_interval = DHT_POLL_INTERVAL
  /\ CodecIdle
  /\ StoreIdle
  /\ RelayIdle
  /\ has_mlx = FALSE
  /\ AcqStartIn("server")

SpecRelay == InitRelay /\ [][NextRelay]_vars

(***************************************************************************)
(* Properties of the acquisition loop and its readers (SpecAcq)            *)
(***************************************************************************)
Range(q) == {q[k] : k \in DOMAIN q}

\* The last n elements of q, in order.
LastN(q, n) ==
  IF Len(q) <= n THEN q ELSE SubSeq(q, Len(q) - n + 1, Len(q))

HasHotPixel(f) == \E k \in DOMAIN f : f[k] > GLITCH_CEILING

\* C3: a thermal frame with a pixel above the glitch ceiling never becomes
\* latest_data["mlx_frame"], never contributes an entry to any mlx_stats
\* ring and is never written to thermal_data.
C3_GlitchFrameNeverPublished ==
  /\ ~HasHotPixel(mlx_frame)
  /\ \A m \in Range(appended.mlx.max) \cup Range(mlx_stats.max) :
       m <= GLITCH_CEILING
  /\ \A r \in Range(thermal_data) :
       /\ r.max_temp <= GLITCH_CEILING
       /\ ~HasHotPixel(JsonLoads(ZlibDecompress(r.raw_frame)))

\* A glitch frame has just been discarded, after an earlier frame was
\* published and persisted.
C3_Witness ==
  /\ HasHotPixel(raw_frame)
  /\ acq_pc = "top"
  /\ thermal_data # <<>>
  /\ mlx_stats.max # <<>>
  /\ mlx_frame # ZeroFrame

\* C4: log_to_db executes at most once per DB_LOG_INTERVAL: the loop's
\* monotonic time samples of any two executed writes differ by more than
\* DB_LOG_INTERVAL, the limiter's reference is the sample of the last
\* executed write, and every persisted row was written by one of those
\* executions (a cycle inside the interval writes nothing).
C4_AtMostOneWritePerInterval ==
  /\ \A a, b \in DOMAIN log_calls :
       a < b => log_calls[b] - log_calls[a] > DB_LOG_INTERVAL
  /\ last_db_log_time =
       (IF log_calls = <<>> THEN 0 ELSE log_calls[Len(log_calls)])
  /\ \A r \in Range(thermal_data) :
       \E k \in DOMAIN log_calls : r.timestamp = Strftime(log_calls[k])
  /\ \A r \in Range(dht_readings) :
       \E k \in DOMAIN log_calls : r.timestamp = Strftime(log_calls[k])
  /\ Len(thermal_data) <= Len(log_calls)
  /\ Len(dht_readings) <= Len(log_calls) * Cardinality(Probes)

\* Three cycles passed the rate limiter (no thermal array, so none was cut
\* short); two wrote and the one inside the interval did not.
C4_Witness ==
  /\ ~has_mlx
  /\ cycles = 3
  /\ acq_pc = "top"
  /\ Len(log_calls) = 2

\* C5: every ring-history stream holds exactly the last MAX_HISTORY values
\* appended to it, in insertion order: its length never exceeds MAX_HISTORY
\* and the append that overflows it evicts the oldest element.
C5_RingHistoryFifo ==
  /\ \A i \in Probes : \A f \in {"time", "temp", "hum"} :
       /\ Len(dht_history[i][f]) <= MAX_HISTORY
       /\ dht_history[i][f] = LastN(appended.dht[i][f], MAX_HISTORY)
  /\ \A f \in {"time", "min", "max", "avg"} :
       /\ Len(mlx_stats[f]) <= MAX_HISTORY
       /\ mlx_stats[f] = LastN(appended.mlx[f], MAX_HISTORY)

\* A probe ring and a thermal ring have each overflowed, and the value
\* evicted from the thermal time ring differs from the one now oldest.
C5_Witness ==
  /\ \E i \in Probes : Len(appended.dht[i].temp) > MAX_HISTORY
  /\ Len(appended.mlx.time) > MAX_HISTORY
  /\ Len(mlx_stats.time) = MAX_HISTORY
  /\ appended.mlx.time[1] # mlx_stats.time[1]

\* The positions of the acquisition thread inside its two critical sections.
InDhtSection ==
  acq_pc \in {"dht_t", "dht_h", "dht_time", "dht_temp", "dht_hum",
              "dht_unlock"}
InMlxSection ==
  acq_pc \in {"mlx_frame", "mlx_time", "mlx_min", "mlx_max", "mlx_avg",
              "mlx_unlock"}

\* C8: the copies a reader takes under data_lock show a state between
\* complete writer critical sections: the thermal time/min/max/avg copies
\* have equal length and end with the statistics of the copied frame, each
\* probe's time/temp/hum copies have equal length, and every copied
\* (temperature, humidity), current or historical, is a pair one poll
\* returned.
C8_ReaderCopyConsistent ==
  rd_pc = "unlock" =>
    /\ ~InDhtSection /\ ~InMlxSection
    /\ LET st == rd_copy.stats
           n == Len(st.time)
       IN /\ Len(st.min) = n /\ Len(st.max) = n /\ Len(st.avg) = n
          /\ n > 0 => /\ st.max[n] = SeqMax(rd_copy.frame)
                      /\ st.min[n] = SeqMin(rd_copy.frame)
                      /\ st.avg[n] = SeqMean(rd_copy.frame)
          /\ n = 0 => rd_copy.frame = ZeroFrame
    /\ \A i \in Probes :
         LET h == rd_copy.hist[i]
         IN /\ Len(h.temp) = Len(h.time)
            /\ Len(h.hum) = Len(h.time)
            /\ \A k \in DOMAIN h.temp : <<h.temp[k], h.hum[k]>> \in ProbeReadings
            /\ <<rd_copy.dht[i].t, rd_copy.dht[i].h>>
                 \in ProbeReadings \cup {NullPair}

\* A reader holds its copies of a published poll and frame while the
\* acquisition thread waits for the lock with the next poll's results.
C8_Witness ==
  /\ rd_pc = "unlock"
  /\ acq_pc = "dht_lock"
  /\ rd_copy.stats.time # <<>>
  /\ \E i \in Probes : rd_copy.dht[i].t # None
  /\ \E i \in Probes : latest_dht_results[i] # <<rd_copy.dht[i].t, rd_copy.dht[i].h>>

(***************************************************************************)
(* Properties of the evaluator ticks (SpecTicks, SpecRace)                 *)
(***************************************************************************)
InvalidEmails == {NotAnEmail, AtNoDot, DotNoAt}

ProbeKinds == {"temp", "low_hum", "high_hum"}
ThermalKinds == {"thermal_max", "thermal_avg"}
KindsOf(triggers) == {triggers[k].kind : k \in DOMAIN triggers}

\* The copied snapshot breaches a probe limit and the thermal limit in
\* either mode.
SnapshotBreachesAll ==
  /\ \E i \in Probes :
       /\ latest_dht[i].t # None
       /\ Val(latest_dht[i].t) > DEFAULT_DHT_TEMP_THRESHOLD
  /\ SeqMax(mlx_frame) > DEFAULT_THERMAL_TEMP_THRESHOLD
  /\ SeqSum(mlx_frame) > DEFAULT_THERMAL_TEMP_THRESHOLD * Len(mlx_frame)

\* C1: with ticks running one after another, every dispatch is made at a
\* moment more than ALERT_COOLDOWN after the last_alert_time in force, any
\* two dispatches are more than ALERT_COOLDOWN apart, and a tick that saw
\* triggers either dispatched or lies within ALERT_COOLDOWN of the previous
\* dispatch (so the first triggering tick dispatches and a second one less
\* than ALERT_COOLDOWN later does not).
C1_DispatchOnlyAfterCooldown ==
  /\ \A k \in DOMAIN dispatched :
       dispatched[k].now - dispatched[k].last_alert_time > ALERT_COOLDOWN
  /\ \A a, b \in DOMAIN dispatched :
       a < b => dispatched[b].now - dispatched[a].now > ALERT_COOLDOWN
  /\ \A e \in EvalThreads :
       ev_pc[e] = "done" /\ ev[e].res.triggers # <<>> =>
         /\ dispatched # <<>>
         /\ LET last == dispatched[Len(dispatched)]
            IN \/ /\ ev[e].alert_msg.kind = "sent"
                  /\ last.now = ev[e].now
                  /\ last_alert_time = ev[e].now
               \/ /\ ev[e].alert_msg.kind = "cooldown"
                  /\ ev[e].now - last.now <= ALERT_COOLDOWN
                  /\ last_alert_time = last.now

\* The first triggering tick dispatched, the tick exactly ALERT_COOLDOWN
\* later did not, and the tick after that one has just dispatched.
C1_Witness ==
  /\ ticks = 3
  /\ Len(dispatched) = 2
  /\ dispatched[2].now - dispatched[1].now = ALERT_COOLDOWN + 1
  /\ \E e \in EvalThreads :
       ev_pc[e] = "done" /\ ev[e].alert_msg.kind = "sent"

\* C2: two evaluator invocations interleaved on different threads, both
\* seeing triggers, make at most one dispatch within one cooldown period:
\* any two dispatches are more than ALERT_COOLDOWN apart.
C2_NoDuplicateDispatch ==
  \A a, b \in DOMAIN dispatched :
    a < b =>
      \/ dispatched[b].now - dispatched[a].now > ALERT_COOLDOWN
      \/ dispatched[a].now - dispatched[b].now > ALERT_COOLDOWN

\* C6: in update_dashboard, with an address that is empty or lacks "@" or
\* ".", no threshold is evaluated (no trigger, no flag, no failed probe),
\* the tick never reaches the cooldown test, no dispatch is made and
\* last_alert_time keeps its value, whatever the snapshot; the status is
\* the invalid-address warning for a non-empty address and empty for an
\* empty one.
C6_InvalidEmailBlocksEvaluation ==
  program = "dash_db4" /\ ui.email_addr \in InvalidEmails \cup {<<>>} =>
    /\ dispatched = <<>>
    /\ last_alert_time = 0
    /\ \A e \in EvalThreads :
         /\ ev_pc[e] \in {"idle", "done"}
         /\ ev_pc[e] = "done" =>
              /\ ev[e].res = NoEvaluation
              /\ ev[e].alert_msg.kind =
                   (IF ui.email_addr = <<>> THEN "none" ELSE "invalid_email")

\* A tick of update_dashboard has finished with the address "not-an-email"
\* on a snapshot that breaches the limits of the selected source.
C6_Witness ==
  /\ program = "dash_db4"
  /\ ui.email_addr = NotAnEmail
  /\ SnapshotBreachesAll
  /\ ticks = 2
  /\ \E e \in EvalThreads :
       ev_pc[e] = "done" /\ ev[e].alert_msg.kind = "invalid_email"

\* C7: update_live_view makes no dispatch and leaves last_alert_time as it
\* is when the configured alert-email is empty or lacks "@" or ".".
C7_AdminGatesOnEmail ==
  program = "admin" /\ config_cache.alert_email \in InvalidEmails \cup {<<>>}
    => dispatched = <<>> /\ last_alert_time = 0

\* C10: in update_dashboard exactly one source is evaluated per tick: with
\* alert_source "dht" the tick has no thermal trigger and is_thermal_alert
\* is false; with "thermal" it has no probe trigger, no failed probe and
\* both probe flags are false.  The same holds of what a dispatch carries.
C10_SingleSourceEvaluated ==
  program = "dash_db4" =>
    /\ \A e \in EvalThreads :
         ev_pc[e] # "idle" =>
           /\ ui.alert_source = "dht" =>
                /\ KindsOf(ev[e].res.triggers) \cap ThermalKinds = {}
                /\ ~ev[e].res.is_thermal_alert
           /\ ui.alert_source = "thermal" =>
                /\ KindsOf(ev[e].res.triggers) \cap ProbeKinds = {}
                /\ ev[e].res.failed_sensors = <<>>
                /\ ~ev[e].res.is_dht_temp_alert
                /\ ~ev[e].res.is_dht_hum_alert
    /\ \A k \in DOMAIN dispatched :
         /\ ui.alert_source = "dht" =>
              /\ KindsOf(dispatched[k].triggers) \subseteq ProbeKinds
              /\ "THERMAL HOTSPOT" \notin Range(dispatched[k].subject)
         /\ ui.alert_source = "thermal" =>
              /\ KindsOf(dispatched[k].triggers) \subseteq ThermalKinds
              /\ dispatched[k].failed_sensors = <<>>
              /\ dispatched[k].subject = <<"CRITICAL: ", "THERMAL HOTSPOT">>

\* A thermal-source tick has dispatched on a snapshot whose probes breach
\* their limits too.
C10_Witness ==
  /\ program = "dash_db4"
  /\ ui.alert_source = "thermal"
  /\ SnapshotBreachesAll
  /\ dispatched # <<>>
  /\ \E e \in EvalThreads :
       ev_pc[e] = "done" /\ ev[e].res.is_thermal_alert

(***************************************************************************)
(* Properties of the replay lookup (SpecReplay)                            *)
(***************************************************************************)

\* strptime of a stored or selected timestamp: the second it names (a day
\* label names the day's first second).
Seconds(txt) == IF Len(txt) = 1 THEN 10 * txt[1] ELSE 10 * txt[1] + txt[2]

\* C9: the replay of a target timestamp T shows the stored frame with the
\* smallest timestamp at or after T, never an earlier one, and shows the
\* "no data" result when no stored frame is at or after T.
C9_ReplayEarliestAtOrAfter ==
  replay_result # NoReplay =>
    LET rows == 1..replay_rows
        later == {k \in rows :
                    Seconds(thermal_data[k].timestamp) >= Seconds(replay_target)}
    IN IF later = {} THEN replay_result = NoData
       ELSE /\ replay_result.kind = "snapshot"
            /\ \E k \in later :
                 /\ \A j \in later :
                      Seconds(thermal_data[k].timestamp)
                        <= Seconds(thermal_data[j].timestamp)
                 /\ replay_result.actual = thermal_data[k].timestamp
                 /\ replay_result.arr =
                      JsonLoads(ZlibDecompress(thermal_data[k].raw_frame))
                 /\ Seconds(replay_result.actual) >= Seconds(replay_target)

\* Frames are stored two seconds before and three seconds after the
\* selected time only; the later one, a different frame, is shown.
C9_Witness ==
  /\ Len(thermal_data) = 2
  /\ replay_rows = 2
  /\ Len(replay_target) = 2
  /\ Seconds(thermal_data[1].timestamp) = Seconds(replay_target) - 2
  /\ Seconds(thermal_data[2].timestamp) = Seconds(replay_target) + 3
  /\ replay_result.kind = "snapshot"
  /\ replay_result.actual = thermal_data[2].timestamp
  /\ replay_result.arr # JsonLoads(ZlibDecompress(thermal_data[1].raw_frame))

(***************************************************************************)
(* Properties of one evaluation (SpecFirstTick)                            *)
(***************************************************************************)

\* The triggers of kind k that a tick's evaluation holds for probe i.
TriggersOf(res, i, k) ==
  {n \in DOMAIN res.triggers :
     res.triggers[n].probe = i /\ res.triggers[n].kind = k}

\* How often probe i occurs in a failed_sensors list.
TimesFailed(failed, i) == Cardinality({n \in DOMAIN failed : failed[n] = i})

\* The humidity band of update_dashboard is configured.
BandSet == ui.dht_hum_min # None /\ ui.dht_hum_max # None

\* C11: in probe mode, for each probe independently, a temperature trigger
\* is appended iff the temperature is non-null and above the upper bound,
\* a Low (High) humidity trigger iff the humidity is non-null and below the
\* minimum (above the maximum) of the band, at most one of the two, none
\* for a value on a bound or a null value, and the probe is in
\* failed_sensors exactly once iff it has a trigger.
C11_ProbeTriggersIndependent ==
  program = "dash_db4" /\ ui.alert_source = "dht"
    /\ ui.email_addr = OpsAddress =>
    \A e \in EvalThreads : ev_pc[e] # "idle" =>
      \A i \in Probes :
        LET res == ev[e].res
            t == latest_dht[i].t
            h == latest_dht[i].h
            hot == /\ t # None /\ ui.dht_temp_lim # None
                   /\ Val(t) > Val(ui.dht_temp_lim)
            low == h # None /\ BandSet /\ Val(h) < Val(ui.dht_hum_min)
            high == h # None /\ BandSet /\ Val(h) > Val(ui.dht_hum_max)
        IN /\ Cardinality(TriggersOf(res, i, "temp")) = (IF hot THEN 1 ELSE 0)
           /\ Cardinality(TriggersOf(res, i, "low_hum")) = (IF low THEN 1 ELSE 0)
           /\ Cardinality(TriggersOf(res, i, "high_hum"))
                = (IF high THEN 1 ELSE 0)
           /\ TimesFailed(res.failed_sensors, i)
                = (IF hot \/ low \/ high THEN 1 ELSE 0)

\* The kinds of trigger a dispatch carries.
DispatchedKinds(k) ==
  {dispatched[k].triggers[n].kind : n \in DOMAIN dispatched[k].triggers}

\* C12: the subject of every dispatch is "CRITICAL: " followed by exactly
\* the violated categories (AIRFLOW OVERHEAT, THERMAL HOTSPOT, HUMIDITY OUT
\* OF RANGE), joined by " + ", each named once however many
\* triggers there are; readings {S1: 46, S2: 20} against the bound 45 give
\* the one trigger of S1 and the subject "CRITICAL: AIRFLOW OVERHEAT".
C12_SubjectNamesViolatedCategories ==
  /\ \A k \in DOMAIN dispatched :
       LET kinds == DispatchedKinds(k)
           overheat == "temp" \in kinds
           hotspot == kinds \cap {"thermal_max", "thermal_avg"} # {}
           humidity == kinds \cap {"low_hum", "high_hum"} # {}
           named == {n \in DOMAIN dispatched[k].subject : n % 2 = 0}
           subject == dispatched[k].subject
       IN /\ subject[1] = "CRITICAL: "
          /\ \A n \in DOMAIN subject :
               n > 1 /\ n % 2 = 1 => subject[n] = " + "
          /\ Cardinality(named) = Cardinality(
               {c \in {"o", "t", "h"} :
                  \/ c = "o" /\ overheat
                  \/ c = "t" /\ hotspot
                  \/ c = "h" /\ humidity})
          /\ Len(subject) = 2 * Cardinality(named)
          /\ overheat <=> "AIRFLOW OVERHEAT" \in Range(subject)
          /\ hotspot <=> "THERMAL HOTSPOT" \in Range(subject)
          /\ humidity <=> "HUMIDITY OUT OF RANGE" \in Range(subject)
  /\ \A k \in DOMAIN dispatched :
       /\ latest_dht[1].t = Some(46) /\ latest_dht[2].t = Some(20)
       /\ \A i \in Probes : latest_dht[i].h = Some(50)
       /\ \/ program = "dash_db4" /\ ui.alert_source = "dht"
             /\ ui.dht_temp_lim = Some(45)
          \/ program = "admin" /\ settings.dht_temp = 45
               /\ mlx_frame = ZeroFrame
       => /\ dispatched[k].triggers = <<Trigger("temp", 1, Frac(46))>>
          /\ dispatched[k].subject = <<"CRITICAL: ", "AIRFLOW OVERHEAT">>

C12_Witness ==
  /\ Len(dispatched) = 1
  /\ latest_dht[1].t = Some(46) /\ latest_dht[2].t = Some(20)
  /\ dispatched[1].triggers = <<Trigger("temp", 1, Frac(46))>>
  /\ dispatched[1].subject = <<"CRITICAL: ", "AIRFLOW OVERHEAT">>

(***************************************************************************)
(* Properties of the mail thread (SpecDispatch)                            *)
(***************************************************************************)

\* C13: every dispatch results in exactly one row of the alerts table,
\* written before the delivery attempt starts, whether or not mail
\* credentials are present and whatever the outcome of the delivery.
C13_ExactlyOneAlertRow ==
  /\ Len(runners) = Len(dispatched)
  /\ \A k \in DOMAIN runners :
       /\ runners[k].rows <= 1
       /\ runners[k].started \/ runners[k].pc = "done" =>
            runners[k].rows = 1
  /\ Len(alerts) <= Len(runners)

\* A step of some mail thread.
RunnerStep == \E k \in DOMAIN runners : Runner(k)

\* C16: dispatch is fire-and-forget.  The tick that has started a mail
\* thread sets last_alert_time and returns without waiting for it; no step
\* of a mail thread changes what a tick has computed or will compute; and a
\* mail thread holds data_lock only for the copy inside the chart renderer,
\* never while it talks to the mail server, so that a later tick (and the
\* acquisition thread, which waits for nothing but data_lock) can go on
\* while a delivery is stuck.
C16_DispatchFireAndForget ==
  /\ [](\A e \in EvalThreads :
          /\ ev_pc[e] = "set" => ENABLED EvSet(e)
          /\ ev_pc[e] = "done" => ENABLED EvReturn(e))
  /\ [](data_lock = "mail" =>
          /\ \E k \in DOMAIN runners : runners[k].pc = "chart_copy"
          /\ ENABLED RunnerStep)
  /\ []((\A e \in EvalThreads : ev_pc[e] = "idle")
          /\ ticks < MaxDispatchTicks /\ data_lock = "free"
          => ENABLED EvBeginDispatch("cb1"))
  /\ [][RunnerStep => UNCHANGED <<last_alert_time, ev_pc, ev, dispatched,
                                   ticks, clock, snapshot>>]_vars

C16_Witness ==
  /\ Len(runners) = 1
  /\ runners[1].pc = "smtp"
  /\ ticks = 2
  /\ \A e \in EvalThreads : ev_pc[e] = "idle"
  /\ last_alert_time = dispatched[1].now

(***************************************************************************)
(* Failures inside the acquisition loop (SpecAcq)                          *)
(***************************************************************************)

\* The positions of the while loop of sensor_reading_thread.
LoopPositions ==
  {"top", "read_dht", "dht_lock", "dht_t", "dht_h", "dht_time", "dht_temp",
   "dht_hum", "dht_unlock", "mlx", "mlx_lock", "mlx_frame", "mlx_time",
   "mlx_min", "mlx_max", "mlx_avg", "mlx_unlock", "log"}

\* The poll's results are being written to the snapshot.
PublishingPoll ==
  acq_pc \in {"dht_lock", "dht_t", "dht_h", "dht_time", "dht_temp",
              "dht_hum", "dht_unlock"}

\* C14: whatever subset of the probes fails in a poll, every probe has an
\* outcome of that poll, a probe whose read raised gets the null pair in the
\* results and in the snapshot, every other probe gets the pair its own read
\* returned, and the loop stays inside its body: no read exception, of a
\* probe or of the thermal array, ends it.
C14_ProbeFailuresIsolated ==
  /\ acq_pc \in LoopPositions
  /\ \A i \in Probes :
       /\ sensed[i].raised => latest_dht_results[i] = NullPair
       /\ ~sensed[i].raised =>
            /\ latest_dht_results[i] = sensed[i].pair
            /\ sensed[i].pair \in {NullPair, ProbeReading(i)}
       /\ ~PublishingPoll =>
            <<latest_dht[i].t, latest_dht[i].h>> = latest_dht_results[i]

\* Probe 1 failed and probe 2 did not in a poll that has been published,
\* after an earlier poll in which probe 1 had been read, and the loop has
\* started a further cycle.
C14_Witness ==
  /\ sensed[1].raised /\ ~sensed[2].raised
  /\ latest_dht[1] = [t |-> None, h |-> None]
  /\ latest_dht[2] = [t |-> Some(47), h |-> Some(71)]
  /\ dht_history[1].temp # <<>>
  /\ acq_pc = "top"
  /\ cycles >= 2

\* C15: a write that fails inside log_to_db does not reach the loop: the
\* step that makes the log call without committing the rows that were due
\* leaves the loop at the top of its next iteration, with the snapshot and
\* its ring histories as the cycle had published them.
C15_WriteFailureContained ==
  [][log_calls' # log_calls /\ dht_readings' = dht_readings
       /\ thermal_data' = thermal_data
       /\ (\/ DhtRows(db_timestamp, latest_dht_results, 1) # <<>>
           \/ ThermalRows(db_timestamp, thermal_stats_for_db,
                          thermal_frame_for_db) # <<>>)
     => /\ acq_pc' = "top"
        /\ latest_dht' = latest_dht /\ dht_history' = dht_history
        /\ mlx_frame' = mlx_frame /\ mlx_stats' = mlx_stats]_vars

\* The write of the first cycle failed (a log call was made, probe 1 had
\* been read, and both tables are empty) and the second cycle is under way.
C15_Witness ==
  /\ cycles = 2
  /\ acq_pc = "read_dht"
  /\ Len(log_calls) = 1
  /\ dht_readings = <<>> /\ thermal_data = <<>>
  /\ latest_dht[1].t # None
  /\ dht_history[1].temp # <<>>

(***************************************************************************)
(* Probe rows (SpecPoll)                                                   *)
(***************************************************************************)

\* The probes whose reading of the last poll is non-null.
ProbesRead == {i \in Probes : latest_dht_results[i][1] # None}

\* C20: a log call that commits writes exactly one dht_readings row for
\* every probe whose reading is non-null and none for a null reading, and
\* over the whole run no reading of one poll of a probe is stored in two
\* rows.
C20_OneRowPerReading ==
  /\ [][log_calls' # log_calls
         /\ (dht_readings' # dht_readings \/ thermal_data' # thermal_data) =>
         LET new == SubSeq(dht_readings', Len(dht_readings) + 1,
                           Len(dht_readings'))
         IN /\ dht_readings' = dht_readings \o new
            /\ Len(new) = Cardinality(ProbesRead)
            /\ \A i \in ProbesRead :
                 Cardinality({k \in DOMAIN new : new[k].sensor_id = i}) = 1]_vars
  /\ [](\A a, b \in DOMAIN dht_readings :
          /\ a # b
          /\ dht_readings[a].sensor_id = dht_readings[b].sensor_id
          => row_poll[a] # row_poll[b])

(***************************************************************************)
(* Properties of the history query (SpecHistory)                           *)
(***************************************************************************)

\* The frame the last query had before its filter, and its output.
QueryFrame == HistoryFrame(thermal_data, dht_readings, Val(hq_in))
QueryOutput == Val(hq_out)

\* The limits that are configured for the last query: the callback's
\* arguments in dash_db4.py (an empty input is not configured), the saved
\* settings in admin.py.
ConfiguredLimits ==
  IF program = "admin"
  THEN [thermal |-> Some(config_cache.thermal_temp),
        thermal_column |-> IF config_cache.thermal_mode = "max"
                           THEN "max_temp" ELSE "avg_temp",
        dht |-> Some(config_cache.dht_temp),
        hum_min |-> Some(config_cache.dht_hum_min),
        hum_max |-> Some(config_cache.dht_hum_max)]
  ELSE [thermal |-> Val(hq_in).thermal_limit, thermal_column |-> "max_temp",
        dht |-> Val(hq_in).dht_limit,
        hum_min |-> Val(hq_in).hum_min, hum_max |-> Val(hq_in).hum_max]

\* Some configured threshold condition is violated in the row.
RowViolates(row, lim) ==
  \/ /\ lim.thermal # None
     /\ CellAbove(row.cell[lim.thermal_column], Val(lim.thermal))
  \/ /\ lim.dht # None
     /\ \E c \in STempColumns : CellAbove(row.cell[c], Val(lim.dht))
  \/ /\ lim.hum_min # None /\ lim.hum_max # None
     /\ \E c \in SHumColumns :
          \/ CellBelow(row.cell[c], Val(lim.hum_min))
          \/ CellAbove(row.cell[c], Val(lim.hum_max))

\* C17: with "exceeded only" selected, a row of the frame is in the output
\* iff one of the configured threshold conditions is violated in it (a
\* probe temperature above the probe limit, a probe humidity outside
\* [min, max], the thermal value above the thermal limit), whatever the
\* values of the configured limits.
C17_ExceededOnlyRetainsViolations ==
  hq_in # None /\ Val(hq_in).exceeded =>
    {QueryOutput[k].timestamp : k \in DOMAIN QueryOutput}
      = {QueryFrame[k].timestamp :
           k \in {j \in DOMAIN QueryFrame :
                    RowViolates(QueryFrame[j], ConfiguredLimits)}}

\* The merged rows the last query resampled, and the windows that hold one.
QueryMerged ==
  HistoryFrame(thermal_data, dht_readings,
               [Val(hq_in) EXCEPT !.interval = "raw"])
QueryWidth == BucketWidth(Val(hq_in).interval)
QueryWindows ==
  {Floor(to_datetime(QueryMerged[k].timestamp), QueryWidth) :
     k \in DOMAIN QueryMerged}
WindowLabel(lo) ==
  IF Val(hq_in).interval = "D" THEN StrftimeDay(lo) ELSE Strftime(lo)

\* Sum and number of the non-null raw values of column c in the window at lo.
WindowSum(lo, c) ==
  LET members == InWindow(QueryMerged, lo, QueryWidth)
  IN CellSum([k \in DOMAIN members |-> members[k].cell[c]])

\* v is the mean of the window's values / the tenth nearest to that mean.
IsMean(v, sum) ==
  IF sum.n = 0 THEN v = None
  ELSE v # None /\ Val(v).num * sum.den * sum.n = Val(v).den * sum.num
IsRoundedMean(v, sum) ==
  IF sum.n = 0 THEN v = None
  ELSE /\ v # None /\ Val(v).den = 10
       /\ LET d == Val(v).num * sum.den * sum.n - 10 * sum.num
          IN 2 * d <= sum.den * sum.n /\ -2 * d <= sum.den * sum.n

\* The output has exactly one row per window that holds a raw row, and its
\* fields satisfy Field.
OneRowPerWindow(Field(_, _)) ==
  /\ Len(QueryOutput) = Cardinality(QueryWindows)
  /\ \A lo \in QueryWindows :
       \E k \in DOMAIN QueryOutput :
         /\ QueryOutput[k].timestamp = WindowLabel(lo)
         /\ \A c \in HistColumns :
              Field(QueryOutput[k].cell[c], WindowSum(lo, c))

\* C18 as stated: with a bucket other than raw (and no filter), the output
\* has exactly one row for every window of the bucket's width that holds a
\* raw row, none for an empty window, and each field is the arithmetic mean
\* of the non-null raw values of that field in the window.
C18_FieldsAreMeans ==
  hq_in # None /\ Val(hq_in).interval # "raw" /\ ~Val(hq_in).exceeded =>
    OneRowPerWindow(IsMean)

\* C18, amended: as above, each field being that mean rounded to one
\* decimal place.
C18_FieldsAreRoundedMeans ==
  hq_in # None /\ Val(hq_in).interval # "raw" /\ ~Val(hq_in).exceeded =>
    OneRowPerWindow(IsRoundedMean)

\* A daily view over three rows of day 0 whose S1 temperatures are 46, 46
\* and 47, an empty day 1 and a row on day 2: two output rows, the first
\* with 46.3.
C18_Witness ==
  /\ hq_in # None /\ Val(hq_in).interval = "D" /\ ~Val(hq_in).exceeded
  /\ Len(QueryMerged) = 4
  /\ Len(QueryOutput) = 2
  /\ WindowSum(0, "S1_temp") = [num |-> 139, den |-> 1, n |-> 3]
  /\ QueryOutput[1].cell["S1_temp"] = Some([num |-> 463, den |-> 10])

(***************************************************************************)
(* Properties of the frame codec (SpecCodec)                               *)
(***************************************************************************)

\* C19: for every accepted grid, what replay decodes from the stored blob
\* has the shape of the original grid and in every cell exactly its value.
C19_FrameRoundTrip ==
  codec_arr # None =>
    LET arr == Val(codec_arr)
        grid == Val(codec_grid)
    IN /\ Len(arr) = MLX_HEIGHT
       /\ \A r \in 1..MLX_HEIGHT :
            /\ Len(arr[r]) = MLX_WIDTH
            /\ \A c \in 1..MLX_WIDTH : arr[r][c] = grid[r][c]

\* A grid with a negative pixel, one with two decimals and one at the
\* glitch ceiling has been stored and replayed.
C19_Witness ==
  /\ codec_arr # None
  /\ Val(codec_grid)[1][1] = -512
  /\ Val(codec_grid)[1][2] = 15000
  /\ Val(codec_grid)[2][1] = 2050
  /\ Val(codec_arr) = Val(codec_grid)

(***************************************************************************)
(* Properties of a raw history query (SpecRange)                           *)
(***************************************************************************)

\* C21: a raw query returns data for exactly the stored thermal rows whose
\* timestamp lies between the start text and the end text, both included;
\* an empty or inverted range, or one without stored data, gives an empty
\* table.
C21_RawRangeInclusive ==
  hq_in # None =>
    /\ {QueryOutput[k].timestamp : k \in DOMAIN QueryOutput}
         = {thermal_data[k].timestamp :
              k \in {j \in DOMAIN thermal_data :
                       /\ TextLeq(Val(hq_in).start_ts,
                                  thermal_data[j].timestamp)
                       /\ TextLeq(thermal_data[j].timestamp,
                                  Val(hq_in).end_ts)}}
    /\ Len(QueryOutput) <= Len(thermal_data)
    /\ ~TextLeq(Val(hq_in).start_ts, Val(hq_in).end_ts) =>
         QueryOutput = <<>>

\* A range that starts at a stored row and ends at another, with a stored
\* row before it and one after it: the two bounds are in the output, the
\* rows outside are not.
C21_Witness ==
  /\ hq_in # None
  /\ Val(hq_in).start_ts = Strftime(2) /\ Val(hq_in).end_ts = Strftime(3)
  /\ Len(thermal_data) = 4
  /\ Len(QueryOutput) = 2
  /\ QueryOutput[1].timestamp = Strftime(3)
  /\ QueryOutput[2].timestamp = Strftime(2)

\* The stored rows a query's range selects.
InQueryRange(rows) ==
  {k \in DOMAIN rows :
     /\ TextLeq(Val(hq_in).start_ts, rows[k].timestamp)
     /\ TextLeq(rows[k].timestamp, Val(hq_in).end_ts)}

\* The stored rows of probe i with timestamp ts.
ProbeRowsAt(i, ts) ==
  {k \in InQueryRange(dht_readings) :
     dht_readings[k].timestamp = ts /\ dht_readings[k].sensor_id = i}

\* A cell of the output holds the number n.
CellIs(cell, n) == cell # None /\ Val(cell).num = n * Val(cell).den

\* C30: a raw query gives one row per thermal row in range; beside it, for
\* each probe, the temperature and humidity of the probe row with the same
\* timestamp, or null when there is none; probe rows without a thermal row
\* of their timestamp appear nowhere, and without a thermal row in range
\* the result is empty.
C30_RawMergeByTimestamp ==
  hq_in # None =>
    /\ Len(QueryOutput) = Cardinality(InQueryRange(thermal_data))
    /\ \A j \in InQueryRange(thermal_data) :
         \E k \in DOMAIN QueryOutput :
           QueryOutput[k].timestamp = thermal_data[j].timestamp
    /\ \A k \in DOMAIN QueryOutput :
         /\ \E j \in InQueryRange(thermal_data) :
              thermal_data[j].timestamp = QueryOutput[k].timestamp
         /\ \A i \in Probes :
              LET hits == ProbeRowsAt(i, QueryOutput[k].timestamp)
                  row == QueryOutput[k].cell
              IN IF hits = {}
                 THEN /\ row[SCol(i, "temp")] = None
                      /\ row[SCol(i, "humidity")] = None
                 ELSE \E h \in hits :
                        /\ CellIs(row[SCol(i, "temp")],
                                  dht_readings[h].temp)
                        /\ CellIs(row[SCol(i, "humidity")],
                                  dht_readings[h].humidity)
    /\ InQueryRange(thermal_data) = {} => QueryOutput = <<>>

\* A query whose range holds a probe row without a thermal row, a thermal
\* row with one probe's row and a thermal row without any probe row.
C30_Witness ==
  /\ hq_in # None
  /\ \E k \in InQueryRange(dht_readings) :
       \A j \in DOMAIN thermal_data :
         thermal_data[j].timestamp # dht_readings[k].timestamp
  /\ \E k \in DOMAIN QueryOutput :
       /\ QueryOutput[k].cell["S1_temp"] = None
       /\ CellIs(QueryOutput[k].cell["S2_temp"], 47)
       /\ CellIs(QueryOutput[k].cell["S2_humidity"], 70)
  /\ \E k \in DOMAIN QueryOutput :
       \A i \in Probes : ProbeRowsAt(i, QueryOutput[k].timestamp) = {}

\* Probe rows are in range and yet the result is empty: no thermal row is.
C30_WitnessProbesOnly ==
  /\ hq_in # None
  /\ InQueryRange(dht_readings) # {}
  /\ InQueryRange(thermal_data) = {}
  /\ QueryOutput = <<>>

(***************************************************************************)
(* Null fields of a probe reading (SpecField)                              *)
(***************************************************************************)

\* C25: a poll appends nothing to a probe's temp stream for a null
\* temperature and nothing to its hum stream for a null humidity, so that
\* no stream of the ring history ever holds a null entry.
C25_NoNullInRingHistory ==
  \A i \in Probes : \A f \in {"temp", "hum"} :
    \A k \in DOMAIN dht_history[i][f] : dht_history[i][f][k] # None

(***************************************************************************)
(* The lock discipline (SpecAlerts4, SpecAcq, SpecDispatch)                *)
(***************************************************************************)

\* C24: whichever thread holds data_lock is only copying values into or
\* out of latest_data, or releasing the lock: no sensor read, statistics
\* computation, storage access, chart rendering or mail transport step is
\* taken while the lock is held.
C24_LockHolderOnlyCopies ==
  /\ data_lock = "acq" => AcqStepKind(acq_pc) \in {"copy", "release"}
  /\ data_lock = "reader" => rd_pc \in {"copy", "unlock"}
  /\ data_lock = "mail" =>
       \E k \in DOMAIN runners : runners[k].pc = "chart_copy"

(***************************************************************************)
(* The thermal test of one evaluation (SpecFirstTick)                      *)
(***************************************************************************)

\* The thermal triggers an evaluation holds.
ThermalTriggersOf(res) ==
  {n \in DOMAIN res.triggers :
     res.triggers[n].kind \in {"thermal_max", "thermal_avg"}}

\* The thermal bound and mode a tick works with, and whether the tick
\* evaluates the thermal source at all.
TickThermalLim ==
  IF program = "admin" THEN Some(config_cache.thermal_temp)
  ELSE ui.thermal_lim
TickThermalMode ==
  IF program = "admin" THEN config_cache.thermal_mode ELSE ui.thermal_mode
TickEvaluatesThermal ==
  \/ program = "admin"
  \/ /\ ui.alert_source = "thermal"
     /\ ui.thermal_lim # None
     /\ ui.email_addr = OpsAddress

\* C26: a tick that evaluates the thermal source compares one value with
\* the thermal bound, the maximum of the frame in mode "max" and its mean
\* otherwise, and holds one thermal trigger, carrying that value, iff the
\* value is strictly greater than the bound; in mode "avg" a frame whose
\* maximum is above the bound and whose mean is not gives no trigger.
C26_ThermalComparesOneValue ==
  \A e \in EvalThreads :
    ev_pc[e] # "idle" /\ TickEvaluatesThermal =>
      LET res == ev[e].res
          lim == Val(TickThermalLim)
          hits == ThermalTriggersOf(res)
          above == IF TickThermalMode = "max"
                   THEN \E k \in DOMAIN mlx_frame : mlx_frame[k] > lim
                   ELSE SeqSum(mlx_frame) > lim * Len(mlx_frame)
      IN /\ Cardinality(hits) = (IF above THEN 1 ELSE 0)
         /\ res.is_thermal_alert = above
         /\ \A n \in hits :
              LET val == res.triggers[n].val
              IN IF TickThermalMode = "max"
                 THEN /\ res.triggers[n].kind = "thermal_max"
                      /\ \E k \in DOMAIN mlx_frame :
                           val.num = mlx_frame[k] * val.den
                      /\ \A k \in DOMAIN mlx_frame :
                           val.num >= mlx_frame[k] * val.den
                 ELSE /\ res.triggers[n].kind = "thermal_avg"
                      /\ val.num * Len(mlx_frame)
                           = SeqSum(mlx_frame) * val.den

\* A tick in mode "avg" has evaluated a frame whose maximum 58 is above the
\* bound 50 and whose mean 49 is not, and holds no trigger.
C26_Witness ==
  /\ program = "dash_db4"
  /\ ui.alert_source = "thermal" /\ ui.thermal_mode = "avg"
  /\ ui.thermal_lim = Some(50) /\ ui.email_addr = OpsAddress
  /\ mlx_frame = <<40, 58>>
  /\ \E e \in EvalThreads :
       ev_pc[e] = "done" /\ ev[e].res.triggers = <<>>

\* A frame whose value lies on the bound gives no trigger in either mode.
C26_WitnessOnBound ==
  /\ mlx_frame = <<50, 50>>
  /\ TickEvaluatesThermal
  /\ \E e \in EvalThreads :
       ev_pc[e] = "done" /\ ThermalTriggersOf(ev[e].res) = {}

(***************************************************************************)
(* The status string of a tick of update_dashboard (SpecRace, SpecTicks)   *)
(***************************************************************************)

\* C27: a finished tick of update_dashboard reports the empty status when
\* it has no trigger (the invalid-address warning when the address is
\* non-empty and invalid), the triggers with "(Email Sent)" when it
\* dispatched, and the triggers with "(Cooldown: Ns)" inside the cooldown,
\* N being ALERT_COOLDOWN - (now - last_alert_time) and within
\* 0..ALERT_COOLDOWN.
C27_StatusDetermined ==
  program = "dash_db4" =>
    \A e \in EvalThreads : ev_pc[e] = "done" =>
      LET msg == ev[e].alert_msg
          sent == \E k \in DOMAIN dispatched :
                    dispatched[k].by = e /\ dispatched[k].now = ev[e].now
      IN /\ msg.kind \in {"none", "invalid_email", "sent", "cooldown"}
         /\ msg.kind = "invalid_email" <=>
              ui.email_addr # <<>> /\ ui.email_addr \in InvalidEmails
         /\ msg.kind = "none" <=>
              /\ ev[e].res.triggers = <<>>
              /\ ui.email_addr \notin InvalidEmails
         /\ msg.kind = "sent" <=> sent
         /\ msg.kind = "cooldown" <=> ev[e].res.triggers # <<>> /\ ~sent
         /\ msg.kind = "cooldown" =>
              /\ msg.remaining \in 0..ALERT_COOLDOWN
              /\ \E k \in DOMAIN dispatched :
                   msg.remaining
                     = ALERT_COOLDOWN - (ev[e].now - dispatched[k].now)

\* A tick of thread e that finished inside the cooldown with a trigger.
TickInCooldown(e) ==
  ev_pc[e] = "done" /\ ev[e].alert_msg.kind = "cooldown"

(***************************************************************************)
(* The evaluator's effect on the cooldown state (SpecRace)                 *)
(***************************************************************************)

\* C28: last_alert_time changes only in the step of a tick that has just
\* dispatched, and becomes that tick's own now; every dispatch puts its
\* tick before exactly that step, and the tick leaves it only by moving
\* last_alert_time, so each dispatch makes one change and there is no
\* other; a tick without triggers or inside the cooldown changes nothing.
C28_StampChangesOncePerDispatch ==
  [][/\ last_alert_time' # last_alert_time =>
          /\ dispatched' = dispatched
          /\ \E e \in EvalThreads :
               /\ ev_pc[e] = "set" /\ ev_pc'[e] = "done"
               /\ last_alert_time' = ev[e].now
               /\ \E k \in DOMAIN dispatched :
                    dispatched[k].by = e /\ dispatched[k].now = ev[e].now
     /\ dispatched' # dispatched =>
          /\ Len(dispatched') = Len(dispatched) + 1
          /\ SubSeq(dispatched', 1, Len(dispatched)) = dispatched
          /\ \E e \in EvalThreads :
               /\ ev_pc[e] = "send" /\ ev_pc'[e] = "set"
               /\ \A o \in EvalThreads \ {e} : ev_pc'[o] = ev_pc[o]
     /\ \A e \in EvalThreads :
          /\ ev_pc[e] # "set" /\ ev_pc'[e] = "set" =>
               Len(dispatched') = Len(dispatched) + 1
          /\ ev_pc[e] = "set" /\ ev_pc'[e] # "set" =>
               /\ last_alert_time' # last_alert_time
               /\ last_alert_time' = ev[e].now
          /\ ev_pc'[e] = "done" /\ ev_pc[e] \in {"idle", "check"} =>
               last_alert_time' = last_alert_time
    ]_vars

\* One tick has dispatched and moved last_alert_time to its own now, and
\* the tick of the other thread, which saw triggers too, has ended inside
\* the cooldown and left it there.
C28_Witness ==
  /\ Len(dispatched) = 1
  /\ last_alert_time = dispatched[1].now
  /\ \E e \in EvalThreads :
       /\ TickInCooldown(e)
       /\ dispatched[1].by # e
       /\ ev[e].now > last_alert_time

(***************************************************************************)
(* Configuration faults in update_live_view (SpecConfig)                   *)
(***************************************************************************)

\* C22: after any sequence of saves and syncs, a save with an emptied
\* threshold field included, every tick of update_live_view completes with
\* a status string: no tick ends in an exception.
C22_LiveViewNeverRaises ==
  \A e \in EvalThreads : ev_pc[e] # "raised"

(***************************************************************************)
(* The retrying dispatcher of secure_dashboard.py (SpecRetry)              *)
(***************************************************************************)

\* The calls of send_alert_email_sync that returned False.
FailedAttempts(r) == {j \in DOMAIN r.results : ~r.results[j]}

\* C29: every mail thread makes at least one and at most three delivery
\* attempts, none after a successful one, and sleeps 2, 4 and 8 seconds
\* after its first, second and third failure; every mail thread ends; and
\* the tick that started it goes on without waiting for it.
C29_RetryBoundedAndTerminates ==
  /\ [](\A k \in DOMAIN runners :
          LET r == runners[k]
          IN /\ Len(r.results) <= 3
             /\ r.pc # "attempt" => Len(r.results) >= 1
             /\ \A j \in DOMAIN r.results :
                  r.results[j] => j = Len(r.results) /\ r.pc = "done"
             /\ Len(r.slept) =
                  Cardinality(FailedAttempts(r))
                    - (IF r.pc = "sleep" THEN 1 ELSE 0)
             /\ \A j \in DOMAIN r.slept :
                  r.slept[j] = (IF j = 1 THEN 2 ELSE IF j = 2 THEN 4 ELSE 8)
             /\ r.pc = "done" =>
                  \/ r.results[Len(r.results)]
                  \/ Len(r.results) = 3 /\ Len(r.slept) = 3)
  /\ \A k \in 1..MaxRetryDispatches :
       [](k \in DOMAIN runners =>
            <>(k \in DOMAIN runners /\ runners[k].pc = "done"))
  /\ [](\A e \in EvalThreads :
          /\ ev_pc[e] = "set" => ENABLED EvSet(e)
          /\ ev_pc[e] = "done" => ENABLED EvReturn(e))

\* One mail thread has failed three times, slept 2, 4 and 8 seconds and
\* ended; another has succeeded at its second attempt after one sleep; the
\* ticks that started them have returned.
C29_Witness ==
  /\ Len(runners) = 2
  /\ \E k \in DOMAIN runners :
       /\ runners[k].pc = "done"
       /\ runners[k].results = <<FALSE, FALSE, FALSE>>
       /\ runners[k].slept = <<2, 4, 8>>
  /\ \E k \in DOMAIN runners :
       /\ runners[k].pc = "done"
       /\ runners[k].results = <<FALSE, TRUE>>
       /\ runners[k].slept = <<2>>
  /\ \A e \in EvalThreads : ev_pc[e] = "idle"

(***************************************************************************)
(* Write ownership among the threads of admin.py (SpecOwners)              *)
(***************************************************************************)

\* What the threads other than the acquisition thread keep for themselves.
OtherThreads == <<evalVars, dispatchVars, queryVars, replayVars>>

\* C23: write ownership is exclusive.  latest_data (the snapshot and the
\* ring history) changes only in a step of the acquisition thread taken
\* while it holds the lock; the readings and thermal tables change only in
\* the acquisition thread's call of log_to_db; last_alert_time changes only
\* in an evaluator tick's assignment; and a step of an evaluator tick, of
\* a mail thread, of a history query or of a replay leaves latest_data as
\* it was.
C23_WriteOwnershipExclusive ==
  [][/\ snapshot' # snapshot =>
          /\ data_lock = "acq"
          /\ acqLocals' # acqLocals
          /\ OtherThreads' = OtherThreads
     /\ tables' # tables =>
          /\ acq_pc = "log"
          /\ log_calls' = Append(log_calls, current_time)
          /\ OtherThreads' = OtherThreads
     /\ last_alert_time' # last_alert_time =>
          /\ \E e \in EvalThreads : ev_pc[e] = "set" /\ ev_pc'[e] = "done"
          /\ UNCHANGED <<acqLocals, dispatchVars, queryVars, replayVars>>
     /\ OtherThreads' # OtherThreads => snapshot' = snapshot]_vars

\* The acquisition thread has published a reading and logged it, a tick
\* has read the snapshot, dispatched an alert and set last_alert_time, and
\* the mail thread has rendered its chart from the ring history and ended.
C23_Witness ==
  /\ dht_readings # <<>>
  /\ \E i \in Probes : dht_history[i].time # <<>>
  /\ Len(dispatched) = 1
  /\ last_alert_time = dispatched[1].now
  /\ has_creds
  /\ \E k \in DOMAIN runners : runners[k].pc = "done"

\* A history query has run beside the acquisition thread and found the
\* rows it logged.
C23_WitnessQuery ==
  /\ dht_readings # <<>>
  /\ hq_out # None
  /\ Val(hq_out) # <<<<>>, <<>>, <<>>, <<>>>>

\* A replay has run beside the acquisition thread and found a stored frame.
C23_WitnessReplay ==
  /\ thermal_data # <<>>
  /\ replay_result # NoReplay
  /\ replay_rows > 0

(***************************************************************************)
(* A failed frame read (SpecAcq)                                           *)
(***************************************************************************)

\* The step in which mlx.getFrame raised: the loop leaves the frame stage
\* without statistics, and the buffer holds no glitch frame that the filter
\* could have discarded.
FrameReadRaised ==
  /\ acq_pc = "mlx"
  /\ has_mlx
  /\ acq_pc' \notin {"mlx", "mlx_lock"}
  /\ ~HasHotPixel(raw_frame')

\* C37: when the thermal frame read raises, latest_data["mlx_frame"] and
\* the thermal ring history stay exactly as they were, the cycle goes on to
\* the rate limiter without thermal statistics, and the log step of such a
\* cycle writes no thermal row while, if the log interval has elapsed, it
\* calls log_to_db with the cycle's probe results, whose rows are the only
\* ones it adds.
C37_FrameErrorKeepsLastFrame ==
  [][/\ FrameReadRaised =>
          /\ mlx_frame' = mlx_frame
          /\ mlx_stats' = mlx_stats
          /\ appended' = appended
          /\ tables' = tables
          /\ thermal_stats_for_db' = None
          /\ thermal_frame_for_db' = None
          /\ acq_pc' = "log"
     /\ (acq_pc = "log" /\ acq_pc' # "log" /\ has_mlx
           /\ thermal_stats_for_db = None) =>
          /\ thermal_data' = thermal_data
          /\ current_time - last_db_log_time > DB_LOG_INTERVAL =>
               log_calls' = Append(log_calls, current_time)
          /\ dht_readings' # dht_readings =>
               dht_readings' =
                 dht_readings \o DhtRows(db_timestamp, latest_dht_results, 1)]_vars

\* With the thermal array present, a frame was published earlier, and a
\* later cycle whose frame read raised has logged its probe rows without a
\* thermal row; the published frame is still there.
C37_Witness ==
  /\ has_mlx
  /\ acq_pc = "top"
  /\ mlx_frame # ZeroFrame
  /\ Len(mlx_stats.max) = 1
  /\ thermal_stats_for_db = None
  /\ ~HasHotPixel(raw_frame)
  /\ \E r \in Range(dht_readings) :
       /\ r.timestamp = db_timestamp
       /\ \A th \in Range(thermal_data) : th.timestamp # r.timestamp

(***************************************************************************)
(* A frame the glitch filter discards (SpecAcq)                            *)
(***************************************************************************)

\* Nothing durable and nothing of the rate limiter changes in the step.
NoDurableEffect ==
  /\ tables' = tables
  /\ last_db_log_time' = last_db_log_time
  /\ log_calls' = log_calls

\* C35: a cycle whose thermal frame is discarded by the glitch filter
\* writes no row, thermal or probe, and leaves last_db_log_time unchanged
\* even when the log interval has elapsed: the step that reads a glitch
\* frame goes straight to the next iteration, a cycle that leaves the frame
\* stage for the next iteration changes nothing durable, and the rate
\* limiter is reached with a thermal array only with an accepted frame or
\* after a failed read.
C35_DiscardedCycleWritesNothing ==
  /\ [][(acq_pc = "mlx" /\ has_mlx /\ raw_frame' # raw_frame
           /\ HasHotPixel(raw_frame')) =>
          (acq_pc' = "top" /\ NoDurableEffect /\ snapshot' = snapshot)]_vars
  /\ [][(acq_pc = "mlx" /\ acq_pc' = "top") => NoDurableEffect]_vars
  /\ [](acq_pc = "log" /\ has_mlx /\ thermal_stats_for_db # None =>
          /\ thermal_frame_for_db = raw_frame
          /\ ~HasHotPixel(raw_frame))

\* A glitch frame has just been discarded in a cycle in which the log
\* interval had elapsed; an earlier cycle had logged, and nothing was added.
C35_Witness ==
  /\ has_mlx
  /\ acq_pc = "top"
  /\ cycles = 2
  /\ HasHotPixel(raw_frame)
  /\ current_time - last_db_log_time > DB_LOG_INTERVAL
  /\ Len(log_calls) = 1
  /\ Len(thermal_data) = 1
  /\ \A r \in Range(dht_readings) : r.timestamp # db_timestamp

(***************************************************************************)
(* The thermal rows and the cycle that wrote them (SpecAcq)                *)
(***************************************************************************)

\* The grid a thermal row encodes.
RowGrid(r) == JsonLoads(ZlibDecompress(r.raw_frame))

\* C34: every persisted thermal row is self-consistent and fresh.  Its
\* max_temp, avg_temp and min_temp are the maximum, mean and minimum of the
\* grid in its raw_frame and max_temp is at most the glitch ceiling; a row
\* is added alone, and its grid is the frame the writing cycle holds in its
\* buffer; the frame stage of every cycle either clears the thermal locals
\* or takes both from the frame it has just read; and nothing between the
\* frame stage and the write changes them.
C34_ThermalRowSelfConsistent ==
  /\ [](\A k \in DOMAIN thermal_data :
          LET r == thermal_data[k]
          IN /\ r.max_temp = SeqMax(RowGrid(r))
             /\ r.min_temp = SeqMin(RowGrid(r))
             /\ r.avg_temp = SeqMean(RowGrid(r))
             /\ r.max_temp <= GLITCH_CEILING)
  /\ [][thermal_data' # thermal_data =>
          /\ Len(thermal_data') = Len(thermal_data) + 1
          /\ SubSeq(thermal_data', 1, Len(thermal_data)) = thermal_data
          /\ RowGrid(thermal_data'[Len(thermal_data')]) = raw_frame
          /\ thermal_frame_for_db = raw_frame
          /\ thermal_data'[Len(thermal_data')].timestamp = db_timestamp]_vars
  /\ [][(acq_pc = "mlx" /\ acq_pc' # "mlx") =>
          \/ /\ thermal_stats_for_db' = None
             /\ thermal_frame_for_db' = None
          \/ /\ acq_pc' = "mlx_lock"
             /\ thermal_frame_for_db' = raw_frame'
             /\ thermal_stats_for_db' =
                  Some([max |-> SeqMax(raw_frame'),
                        avg |-> SeqMean(raw_frame'),
                        min |-> SeqMin(raw_frame')])]_vars
  /\ [][acq_pc # "mlx" =>
          UNCHANGED <<thermal_stats_for_db, thermal_frame_for_db,
                      raw_frame>>]_vars
  /\ [][(acq_pc' = "log" /\ acq_pc # "log") =>
          acq_pc \in {"mlx", "mlx_unlock"}]_vars

\* Two cycles have each written a thermal row, the second with a frame
\* read after a failed read in between.
C34_Witness ==
  /\ has_mlx
  /\ cycles = 3
  /\ acq_pc = "top"
  /\ Len(thermal_data) = 2
  /\ Len(log_calls) = 3
  /\ RowGrid(thermal_data[2]) = raw_frame

(***************************************************************************)
(* The alert source selection of admin.py (SpecSource)                     *)
(***************************************************************************)

\* C33: in admin.py the selected alert source decides what a tick of
\* update_live_view evaluates: with 'dht' selected a tick never has a
\* thermal trigger, and with 'thermal' selected it never has a probe
\* trigger.
C33_AdminSelectedSourceOnly ==
  \A e \in EvalThreads :
    ev_pc[e] # "idle" =>
      /\ ui.alert_source = "dht" => ~ev[e].res.is_thermal_alert
      /\ ui.alert_source = "thermal" =>
           /\ ~ev[e].res.is_dht_temp_alert
           /\ ~ev[e].res.is_dht_hum_alert

\* The half of it that admin.py breaks with 'dht' selected.
C33_DhtSelectedNoThermal ==
  \A e \in EvalThreads :
    (ev_pc[e] # "idle" /\ ui.alert_source = "dht") =>
      ~ev[e].res.is_thermal_alert

\* The half of it that admin.py breaks with 'thermal' selected.
C33_ThermalSelectedNoProbe ==
  \A e \in EvalThreads :
    (ev_pc[e] # "idle" /\ ui.alert_source = "thermal") =>
      (~ev[e].res.is_dht_temp_alert /\ ~ev[e].res.is_dht_hum_alert)

(***************************************************************************)
(* A failed reload of the settings (SpecReload)                            *)
(***************************************************************************)

\* The limits update_live_view uses when config_cache has no key.
FallbackLimits ==
  [dht_temp |-> 100, dht_hum_min |-> 0, dht_hum_max |-> 100,
   thermal_temp |-> 100, thermal_mode |-> "max", alert_email |-> <<>>]

WholePosts ==
  {RelayInitial} \cup {FieldsOf(b) : b \in {p \in PostBodies : p.kind = "object"}}

\* C39: a POST /api/data replaces all five fields atomically, a missing
\* key becoming None: whenever no POST is inside its with block the store
\* holds the five fields of one POST or the initial state, every body a GET
\* has copied is such a state, never a mix of two POSTs, and the store
\* changes only in a step of a POST that holds the lock and carries a JSON
\* object; a POST answered 400 or 500 has changed nothing.
C39_RelayPostAtomic ==
  /\ []((\A r \in RelayThreads : relay_lock # PostHolder(r)) =>
          relay_data \in WholePosts)
  /\ [](\A r \in RelayThreads :
          gets[r].body # None => Val(gets[r].body) \in WholePosts)
  /\ [][relay_data' # relay_data =>
          \E r \in RelayThreads :
            /\ relay_lock = PostHolder(r)
            /\ posts[r].pc = "set"
            /\ Val(posts[r].data).kind = "object"
            /\ posts'[r].status \notin {400, 500}]_vars
  /\ [][\A r \in RelayThreads :
          (posts'[r].status \in {400, 500} /\ posts'[r] # posts[r]) =>
            relay_data' = relay_data]_vars
  /\ [][\A r \in RelayThreads :
          (posts[r].pc = "unlock" /\ posts'[r].pc = "done") =>
            relay_data = FieldsOf(Val(posts[r].data))]_vars

\* A GET has returned the five fields of the partial POST, the missing
\* keys as None, while the other thread's POST of all five fields, which
\* waited for the lock, is in the middle of its assignments.
C39_Witness ==
  /\ \E r \in RelayThreads :
       /\ gets[r].status = 200
       /\ gets[r].body = Some(FieldsOf(RelayObject({"t1", "thermal_image"}, 3)))
  /\ \E r \in RelayThreads :
       /\ posts[r].pc = "set"
       /\ posts[r].status = 3
       /\ Val(posts[r].data) = RelayObject(RelayFields, 1)
       /\ relay_data \notin WholePosts
  /\ \E r \in RelayThreads : posts[r].status = 400

(***************************************************************************)
(* Seeding of the settings (SpecSeed)                                      *)
(***************************************************************************)

\* C31: config seeding is idempotent and never overwrites.  A run of
\* init_db leaves every key that is present with the value it has and
\* inserts the default for every key that is missing, and nothing else; a
\* run after the first changes nothing; and the settings table changes
\* otherwise only in a save, which stores the form it also assigns to
\* config_cache.
C31_SeedingNeverOverwrites ==
  /\ [][starts' # starts =>
          /\ \A k \in DOMAIN settings :
               k \in DOMAIN settings' /\ settings'[k] = settings[k]
          /\ DOMAIN settings' = DOMAIN settings \cup ConfigKeys
          /\ \A k \in DOMAIN settings' \ DOMAIN settings :
               settings'[k] = SeedDefaults[k]]_vars
  /\ [][(starts' # starts /\ starts > 0) => settings' = settings]_vars
  /\ [][(settings' # settings /\ starts' = starts) =>
          /\ config_cache' \in SaveForms
          /\ settings' = StoredConfig(config_cache')]_vars

\* The program has started twice on a table that held a saved thermal
\* mode and no probe temperature limit: the mode is still the saved one
\* and the limit is the default that the first start inserted.
C31_Witness ==
  /\ starts = 2
  /\ config_cache = settings
  /\ settings.thermal_mode = "avg"
  /\ settings.dht_temp = SeedDefaults.dht_temp
  /\ settings.alert_email = <<>>

(***************************************************************************)
(* log_to_db as a transaction (SpecLog)                                    *)
(***************************************************************************)

\* C36: log_to_db is all-or-nothing.  The tables change only in the
\* commit, which adds every row of the call at once: all probe rows with a
\* temperature and the thermal row; a call that fails before the commit
\* leaves both tables as they were when it began and drops its rows; and a
\* history query, whenever one of its two reads runs, reads committed rows
\* only.
C36_LogToDbAllOrNothing ==
  /\ [][tables' # tables =>
          /\ acq_pc = "log_commit"
          /\ dht_readings' =
               dht_readings \o DhtRows(db_timestamp, latest_dht_results, 1)
          /\ thermal_data' =
               thermal_data \o ThermalRows(db_timestamp, thermal_stats_for_db,
                                            thermal_frame_for_db)]_vars
  /\ [][acq_pc = "log_except" =>
          (tables' = tables /\ (acq_pc' # acq_pc => txn' = NoTxn))]_vars
  /\ [](acq_pc \notin {"log_dht", "log_thermal", "log_commit", "log_except"}
          => txn = NoTxn)
  /\ [][hq_thermal' # hq_thermal => hq_thermal' = Some(thermal_data)]_vars
  /\ [][hq_out' # hq_out =>
          hq_out' = Some(load_history_data(program, Val(hq_thermal),
                                           dht_readings, Val(hq_in),
                                           config_cache))]_vars

\* A call has committed two probe rows and a thermal row together; the
\* next call has inserted a probe row and then failed, and the tables hold
\* the first call's rows only.
C36_Witness ==
  /\ has_mlx
  /\ acq_pc = "log_end"
  /\ Len(log_calls) = 1
  /\ Len(dht_readings) = 2
  /\ Len(thermal_data) = 1
  /\ wi = 2
  /\ latest_dht_results[1][1] # None
  /\ \A r \in Range(dht_readings) : r.timestamp # db_timestamp

\* A history query has run while a transaction with rows was open and has
\* returned a table.
C36_WitnessQuery ==
  /\ acq_pc = "log_commit"
  /\ txn.dht # <<>>
  /\ txn.thermal # <<>>
  /\ hq_out # None
  /\ dht_readings # <<>>

\* No save is in progress and one has completed.
SaveSettled == save_pc = "idle" /\ save_at # None

C32_WitnessStale ==
  /\ SaveSettled
  /\ acq_pc = "sync_done"
  /\ settings = StoredConfig(Val(save_conf))
  /\ config_cache # settings
  /\ config_cache # Val(save_conf)

\* The threads that stand before a with data_lock statement.
AcqRequests == acq_pc \in {"dht_lock", "mlx_lock"}
TickRequests == ev_pc[LockTick] = "wait"
MailRequests(k) == k \in DOMAIN runners /\ runners[k].pc = "chart_lock"

\* The threads inside a with data_lock block.
AcqInside ==
  acq_pc \in {"dht_t", "dht_h", "dht_time", "dht_temp", "dht_hum",
              "dht_unlock", "mlx_frame", "mlx_time", "mlx_min", "mlx_max",
              "mlx_avg", "mlx_unlock"}
TickInside == ev_pc[LockTick] \in {"copy", "unlock"}
MailInside(k) == k \in DOMAIN runners /\ runners[k].pc = "chart_copy"

\* C38: data_lock is deadlock-free: a thread that requests the lock does
\* not hold it (the holder is always a thread inside its with block, and
\* the lock is taken only when free), every critical section ends with the
\* lock released, and under fair scheduling every acquisition step, tick
\* and chart renderer that requests the lock comes to hold it.
C38_DataLockDeadlockFree ==
  /\ [](/\ data_lock = "acq" <=> AcqInside
        /\ data_lock = "reader" <=> TickInside
        /\ data_lock = "mail" <=> \E k \in DOMAIN runners : MailInside(k)
        /\ AcqRequests => data_lock # "acq"
        /\ TickRequests => data_lock # "reader"
        /\ \A k \in DOMAIN runners :
             MailRequests(k) =>
               ~ \E o \in DOMAIN runners : MailInside(o) /\ o = k)
  /\ [][data_lock' \notin {data_lock, "free"} => data_lock = "free"]_vars
  /\ \A h \in {"acq", "reader", "mail"} :
       (data_lock = h) ~> (data_lock = "free")
  /\ AcqRequests ~> AcqInside
  /\ TickRequests ~> TickInside
  /\ \A k \in 1..MaxLockRunners : MailRequests(k) ~> MailInside(k)

\* All three kinds of thread want the lock at once, while one of them
\* holds it.
C38_Witness ==
  /\ data_lock = "mail"
  /\ AcqRequests
  /\ TickRequests

\* The acquisition loop and a chart renderer wait while a tick holds the
\* lock.
C38_WitnessTickHolds ==
  /\ data_lock = "reader"
  /\ AcqRequests
  /\ \E k \in DOMAIN runners : MailRequests(k)

====
